---- MODULE Spec2Model ----
(***************************************************************************)
(* A model of the Screenplay actor of @serenity-js/core                    *)
(* (packages/core/src/screenplay/Actor.ts): the ability registry, the      *)
(* sequential activity chain built by Actor.attemptsTo, the activity       *)
(* tracker (TrackedActivity, ActivityDescriber, OutcomeMatcher) and the    *)
(* part of the Stage the actor talks to.                                   *)
(*                                                                         *)
(* Promise chains are modelled one callback per action: an action is the   *)
(* body of one `.then` / `.catch` callback (or of one synchronous call     *)
(* made by the test), and the scheduler picks any callback that is ready.  *)
(***************************************************************************)
EXTENDS Integers, Sequences, FiniteSets, TLC

VARIABLES
    abilities,        \* Actor.abilities: per actor, an insertion-ordered Map as a sequence of [key, value]
    initialised,      \* ids of the ability instances whose isInitialised() returns true
    calls,            \* the promise chains built by Actor.attemptsTo, in creation order
    events,           \* every DomainEvent announced on the Stage, in announcement order
    currentScene,     \* Stage: current scene id, 0 when no scene is active
    currentActivity,  \* Stage: current activity id, 0 when none was assigned
    nextId,           \* source of fresh correlation ids
    scenes,           \* number of scenes started so far
    grants,           \* number of whoCan calls made so far
    lastGrant,        \* what the last whoCan call threw, NoError when it returned
    granted,          \* history: per actor, the abilities whoCan has stored, in order
    settled,          \* history: how the performAs of each wrapped activity settled, in order
    lookup,           \* history: the last abilityTo call: the Map it saw, what it returned or threw
    dismissals,       \* the promise chains built by Actor.dismiss, in creation order
    lifecycle,        \* history: the initialise and discard invocations, in order
    collections,      \* history: the Actor.collect calls, in order
    answers,          \* history: the Actor.answer calls and what they returned, in order
    crew,             \* Stage: the crew members assigned, with what each received and wrote
    browsing,         \* WebdriverIOBrowsingSession: the browser's windows, the pages registered, the calls
    reports           \* history: the last EventQueueProcessors.process call and what it returned

registry == <<abilities, initialised, grants, lastGrant, granted>>

stage == <<currentScene, currentActivity, nextId, scenes>>

upkeep == <<lookup, dismissals, lifecycle>>

desk == <<collections, answers>>

annex == <<browsing, reports>>

backstage == <<desk, crew, annex>>

vars == <<registry, stage, calls, events, settled, upkeep, backstage>>

----------------------------------------------------------------------------
(* Bounds *)

\* The activities, sub-activities included, the test hands to attemptsTo
\* in one run, an attemptsTo call counting for one more
MaxWork == 5
MaxScenes == 1
MaxGrants == 3
MaxDismissals == 1
MaxCollects == 2
MaxAnswers == 2
MaxCrew == 2
MaxFaults == 2

Actors == {"Wendy", "Mocha"}

----------------------------------------------------------------------------
(* Thrown values and their classes *)

\* The prototype of a class of thrown values; "null" ends the chain.
ErrorProto(cls) ==
    CASE cls = "Error"                      -> "Object"
      [] cls = "RuntimeError"               -> "Error"
      [] cls = "ImplementationPendingError" -> "RuntimeError"
      [] cls = "TestCompromisedError"       -> "RuntimeError"
      [] cls = "AssertionError"             -> "RuntimeError"
      [] cls = "ConfigurationError"         -> "RuntimeError"
      [] cls = "LogicError"                 -> "RuntimeError"
      [] cls = "TypeError"                  -> "Error"
      [] cls = "chai.AssertionError"        -> "Error"
      [] cls = "JestAssertionError"         -> "Error"
      [] cls = "PendingAssertionError"      -> "ImplementationPendingError"
      [] cls = "CompromisedAssertionError"  -> "TestCompromisedError"
      [] cls = "StrictAssertionError"       -> "AssertionError"
      [] cls = "Object"                     -> "null"
      [] cls = "String"                     -> "null"
      [] cls = "undefined"                  -> "null"
      [] OTHER                              -> "null"

\* error.constructor.name
ConstructorName(cls) ==
    CASE cls = "chai.AssertionError" -> "AssertionError"
      [] OTHER                       -> cls

RECURSIVE InstanceOf(_, _)
\* value instanceof Class, for a value whose class is cls
InstanceOf(cls, Class) ==
    IF cls = "null" THEN FALSE
    ELSE IF cls = Class THEN TRUE
    ELSE InstanceOf(ErrorProto(cls), Class)

\* An error value: its class, and its cause (a sequence holding at most one error).
Err(cls) == [cls |-> cls, about |-> "", cause |-> <<>>]

NoError == [cls |-> "none", about |-> "", cause |-> <<>>]

----------------------------------------------------------------------------
(* OutcomeMatcher *)

\* /pattern/.test(name): the pattern occurs somewhere in the name
RegExpTest(pattern, name) ==
    \E i \in 1..(Len(name) - Len(pattern) + 1) :
        SubSeq(name, i, i + Len(pattern) - 1) = pattern

Outcome(variant, error) == [variant |-> variant, error |-> error]

\* outcomeFor without the test of the constructor name
outcomeForWithoutNamePattern(error) ==
    IF InstanceOf(error.cls, "ImplementationPendingError")
        THEN Outcome("ImplementationPending", error)
    ELSE IF InstanceOf(error.cls, "TestCompromisedError")
        THEN Outcome("ExecutionCompromised", error)
    ELSE IF InstanceOf(error.cls, "AssertionError")
        THEN Outcome("ExecutionFailedWithAssertionError", error)
    ELSE Outcome("ExecutionFailedWithError", error)

\* outcomeFor with the rule for Error, and its test of the constructor name, added first
outcomeForNamePatternFirst(error) ==
    IF InstanceOf(error.cls, "Error") /\ RegExpTest("AssertionError", ConstructorName(error.cls))
        THEN Outcome("ExecutionFailedWithAssertionError", error)
    ELSE IF InstanceOf(error.cls, "ImplementationPendingError")
        THEN Outcome("ImplementationPending", error)
    ELSE IF InstanceOf(error.cls, "TestCompromisedError")
        THEN Outcome("ExecutionCompromised", error)
    ELSE IF InstanceOf(error.cls, "AssertionError")
        THEN Outcome("ExecutionFailedWithAssertionError", error)
    ELSE Outcome("ExecutionFailedWithError", error)

\* OutcomeMatcher.outcomeFor: the rules of match(error) are tried in the order
\* they were added with .when, the first that matches decides, .else is the default
outcomeFor(error) ==
    IF InstanceOf(error.cls, "ImplementationPendingError")
        THEN Outcome("ImplementationPending", error)
    ELSE IF InstanceOf(error.cls, "TestCompromisedError")
        THEN Outcome("ExecutionCompromised", error)
    ELSE IF InstanceOf(error.cls, "AssertionError")
        THEN Outcome("ExecutionFailedWithAssertionError", error)
    ELSE IF InstanceOf(error.cls, "Error")
        THEN IF RegExpTest("AssertionError", ConstructorName(error.cls))
                THEN Outcome("ExecutionFailedWithAssertionError", error)
                ELSE Outcome("ExecutionFailedWithError", error)
    ELSE Outcome("ExecutionFailedWithError", error)

ExecutionSuccessful == Outcome("ExecutionSuccessful", NoError)

----------------------------------------------------------------------------
(* Activities *)

\* The activities the test can hand to an actor.  A Task performs its
\* sub-activities with `return actor.attemptsTo(...)`; an Interaction, and a
\* Task without sub-activities, does work of its own that succeeds or fails.
Activities == {"Click", "Navigate", "Ensure", "LogIn", "CheckOut"}

IsInteraction(activity) == activity \in {"Click", "Navigate", "Ensure"}

SubActivities(activity) ==
    CASE activity = "LogIn"    -> <<"Navigate", "Click">>
      [] activity = "CheckOut" -> <<"LogIn">>
      [] OTHER                 -> <<>>

\* activity.toString(): the description template, "[object Object]" when the
\* activity does not define one
toString(activity) ==
    CASE activity = "Click"    -> "#actor clicks on the button"
      [] activity = "Navigate" -> "#actor navigates to the page"
      [] activity = "Ensure"   -> "#actor ensures that #actor is logged in"
      [] activity = "LogIn"    -> "[object Object]"
      [] activity = "CheckOut" -> "#actor checks out"
      [] OTHER                 -> "[object Object]"

\* String.prototype.replace(pattern, replacement) with a string pattern:
\* the first occurrence only
RECURSIVE ReplaceFrom(_, _, _, _)
ReplaceFrom(template, pattern, replacement, i) ==
    IF i + Len(pattern) - 1 > Len(template) THEN template
    ELSE IF SubSeq(template, i, i + Len(pattern) - 1) = pattern
        THEN SubSeq(template, 1, i - 1) \o replacement
                \o SubSeq(template, i + Len(pattern), Len(template))
    ELSE ReplaceFrom(template, pattern, replacement, i + 1)

\* ActivityDescriber.includeActorName
includeActorName(template, actor) == ReplaceFrom(template, "#actor", actor, 1)

\* ActivityDescriber.describe
describe(activity, actor) ==
    LET template == IF toString(activity) = "[object Object]"
                        THEN "#actor performs " \o activity
                        ELSE toString(activity)
    IN  includeActorName(template, actor)


----------------------------------------------------------------------------
(* Abilities *)

\* Object.getPrototypeOf(type) for the ability classes; a class without
\* `extends` has Function.prototype as its prototype
AbilityProto(type) ==
    CASE type = "BrowseTheWeb"                -> "Ability"
      [] type = "BrowseTheWebWithProtractor"  -> "BrowseTheWeb"
      [] type = "BrowseTheWebWithWebdriverIO" -> "BrowseTheWeb"
      [] type = "BrowseWithHeadlessChrome"    -> "BrowseTheWebWithProtractor"
      [] type = "CallAnApi"                   -> "Ability"
      [] type = "TakeNotes"                   -> "Ability"
      [] type = "Ability"                     -> "Function.prototype"
      [] type = "Duck"                        -> "Function.prototype"
      [] type = "Function.prototype"          -> "Object.prototype"
      [] type = "Object.prototype"            -> "null"
      [] OTHER                                -> "null"

AbilityTypes == {"BrowseTheWeb", "BrowseTheWebWithProtractor", "BrowseTheWebWithWebdriverIO",
                 "BrowseWithHeadlessChrome", "CallAnApi", "TakeNotes"}

RECURSIVE IsSubtypeOf(_, _)
\* type is Super or extends it, directly or not
IsSubtypeOf(type, Super) ==
    IF type = "null" THEN FALSE
    ELSE IF type = Super THEN TRUE
    ELSE IsSubtypeOf(AbilityProto(type), Super)

\* ability instanceof Ability
IsAbility(ability) == IsSubtypeOf(ability.type, "Ability")

\* typeof(ability[methodName]) === 'function'
HasMethod(ability, methodName) ==
    CASE methodName = "discard" ->
            ability.type \in {"BrowseTheWebWithProtractor", "BrowseWithHeadlessChrome",
                              "CallAnApi", "Duck"}
      [] methodName = "initialise" ->
            ability.type \in {"BrowseTheWebWithProtractor", "BrowseWithHeadlessChrome",
                              "BrowseTheWebWithWebdriverIO", "CallAnApi", "TakeNotes", "Duck"}
      [] methodName = "isInitialised" ->
            ability.type \in {"BrowseTheWebWithProtractor", "BrowseWithHeadlessChrome",
                              "CallAnApi", "TakeNotes", "Duck"}
      [] OTHER -> FALSE

\* The values the test can hand to whoCan: ability instances, and one object
\* that has the discard, initialise and isInitialised methods but does not
\* extend Ability
Instances ==
    { [id |-> 1, type |-> "BrowseTheWeb"],
      [id |-> 2, type |-> "BrowseTheWebWithProtractor"],
      [id |-> 3, type |-> "BrowseTheWebWithProtractor"],
      [id |-> 4, type |-> "BrowseTheWebWithWebdriverIO"],
      [id |-> 5, type |-> "BrowseWithHeadlessChrome"],
      [id |-> 6, type |-> "CallAnApi"],
      [id |-> 7, type |-> "TakeNotes"],
      [id |-> 8, type |-> "Duck"] }

\* mostGenericTypeOf without the recursion: one step up the prototype chain
mostGenericTypeOfOneStepUp(abilityType) ==
    LET parentType == AbilityProto(abilityType)
    IN  IF parentType = "null" \/ parentType = "Ability" THEN abilityType ELSE parentType

RECURSIVE mostGenericTypeOf(_)
\* Actor.mostGenericTypeOf
mostGenericTypeOf(abilityType) ==
    LET parentType == AbilityProto(abilityType)
    IN  IF parentType = "null" \/ parentType = "Ability"
            THEN abilityType
            ELSE mostGenericTypeOf(parentType)

\* Map.prototype.has / get / set on an insertion-ordered Map
MapHas(map, key) == \E i \in 1..Len(map) : map[i].key = key

MapGet(map, key) == map[CHOOSE i \in 1..Len(map) : map[i].key = key].value

MapSet(map, key, value) ==
    IF MapHas(map, key)
        THEN [i \in 1..Len(map) |->
                IF map[i].key = key THEN [key |-> key, value |-> value] ELSE map[i]]
        ELSE Append(map, [key |-> key, value |-> value])

MapValues(map) == [i \in 1..Len(map) |-> map[i].value]

MapKeys(map) == [i \in 1..Len(map) |-> map[i].key]

\* Actor.findAbilitiesOfType
findAbilitiesOfType(map, methodNames) ==
    LET abilitiesWithDesiredMethods(ability) ==
            \A methodName \in methodNames : HasMethod(ability, methodName)
    IN  SelectSeq(MapValues(map), abilitiesWithDesiredMethods)

\* Actor.findAbilityTo: the stored ability, or None
None == [id |-> 0, type |-> "undefined"]

findAbilityTo(map, doSomething) ==
    LET abilityType == mostGenericTypeOf(doSomething)
    IN  IF MapHas(map, abilityType) THEN MapGet(map, abilityType) ELSE None

\* acquireAbility without the instanceof guard: whatever is given is stored
acquireAbilityUnguarded(map, ability) ==
    [map   |-> MapSet(map, mostGenericTypeOf(ability.type), ability),
     error |-> NoError]

\* Actor.acquireAbility: the map after the call, and the error thrown
\* (NoError when the call returns)
acquireAbility(map, ability) ==
    IF ~ IsAbility(ability)
        THEN [map |-> map, error |-> Err("ConfigurationError")]
        ELSE [map   |-> MapSet(map, mostGenericTypeOf(ability.type), ability),
              error |-> NoError]

RECURSIVE acquireEach(_, _)
\* The values acquired one after another, up to the first that is refused
acquireEach(map, given) ==
    IF given = <<>> THEN [map |-> map, error |-> NoError]
    ELSE LET acquired == acquireAbility(map, Head(given))
         IN  IF acquired.error # NoError THEN acquired
             ELSE acquireEach(acquired.map, Tail(given))

\* whoCan that rolls back: when a value is refused, the abilities stored by
\* the same call are taken out again
whoCanRollingBack(map, given) ==
    LET acquired == acquireEach(map, given)
    IN  IF acquired.error # NoError
            THEN [map |-> map, error |-> acquired.error]
            ELSE acquired

RECURSIVE whoCan(_, _)
\* Actor.whoCan: abilities.forEach(ability => this.acquireAbility(ability));
\* forEach ends at the first exception
whoCan(map, given) ==
    IF given = <<>> THEN [map |-> map, error |-> NoError]
    ELSE LET acquired == acquireAbility(map, Head(given))
         IN  IF acquired.error # NoError THEN acquired
             ELSE whoCan(acquired.map, Tail(given))

RECURSIVE Join(_, _)
\* Array.prototype.join
Join(names, separator) ==
    IF names = <<>> THEN ""
    ELSE IF Len(names) = 1 THEN names[1]
    ELSE names[1] \o separator \o Join(Tail(names), separator)

\* new ConfigurationError(message)
ConfigurationError(message) ==
    [cls |-> "ConfigurationError", about |-> message, cause |-> <<>>]

\* abilityTo with the two messages the wrong way round
abilityToMessagesSwapped(map, name, abilityType) ==
    LET found == findAbilityTo(map, abilityType)
    IN  IF found = None
            THEN IF Len(map) = 0
                    THEN [found |-> None,
                          error |-> ConfigurationError(
                            name \o " can " \o Join(MapKeys(map), ", ") \o ". "
                                 \o "They can't, however, " \o abilityType \o " yet. "
                                 \o "Did you give them the ability to do so?")]
                    ELSE [found |-> None,
                          error |-> ConfigurationError(
                            name \o " can't " \o abilityType \o " yet. "
                                 \o "Did you give them the ability to do so?")]
            ELSE [found |-> found, error |-> NoError]

\* Actor.abilityTo: the ability it returns (None when it throws) and the
\* error it throws (NoError when it returns)
abilityTo(map, name, abilityType) ==
    LET found == findAbilityTo(map, abilityType)
    IN  IF found = None
            THEN IF Len(map) > 0
                    THEN [found |-> None,
                          error |-> ConfigurationError(
                            name \o " can " \o Join(MapKeys(map), ", ") \o ". "
                                 \o "They can't, however, " \o abilityType \o " yet. "
                                 \o "Did you give them the ability to do so?")]
                    ELSE [found |-> None,
                          error |-> ConfigurationError(
                            name \o " can't " \o abilityType \o " yet. "
                                 \o "Did you give them the ability to do so?")]
            ELSE [found |-> found, error |-> NoError]

\* No abilityTo call was made yet
NoLookup == [actor |-> "", type |-> "", held |-> <<>>, found |-> None, error |-> NoError]


----------------------------------------------------------------------------
(* Stage *)

\* Stage.announce: the event joins the stream the crew members receive
announce(stream, event) == Append(stream, event)

\* The crew members of the tests: a StreamReporter, and two listeners, one of
\* which has a notifyOf that can fail
CrewMembers == {"StreamReporter", "Photographer", "ConsoleReporter"}

Unreliable == {"Photographer"}

\* Stage.assign(crewMember): the member as it joins the crew, after `since`
\* events: it has been notified of nothing and has written nothing
CrewMember(member, since) ==
    [member |-> member, since |-> since, inbox |-> <<>>, output |-> <<>>, failed |-> <<>>]

assign(members, member, since) == Append(members, CrewMember(member, since))

Assigned(members) == {members[m].member : m \in DOMAIN members}

\* Timestamp.fromJSON: the seconds, and the milliseconds when the string has them
DigitOf(char) ==
    CASE char = "0" -> 0 [] char = "1" -> 1 [] char = "2" -> 2 [] char = "3" -> 3
      [] char = "4" -> 4 [] char = "5" -> 5 [] char = "6" -> 6 [] char = "7" -> 7
      [] char = "8" -> 8 [] char = "9" -> 9

TimestampFromJSON(v) ==
    [seconds |-> SubSeq(v, 1, 19),
     millis  |-> IF Len(v) = 20 THEN 0
                 ELSE 100 * DigitOf(SubSeq(v, 21, 21)) + 10 * DigitOf(SubSeq(v, 22, 22))
                        + DigitOf(SubSeq(v, 23, 23))]

\* Timestamp.toJSON: Date.toISOString, always with three digits of milliseconds
TimestampToJSON(timestamp) ==
    timestamp.seconds \o "."
        \o ToString(timestamp.millis \div 100)
        \o ToString((timestamp.millis \div 10) % 10)
        \o ToString(timestamp.millis % 10)
        \o "Z"

\* event.toJSON(): the payload of the event, serialised
toJSON(event) ==
    IF event.type = "TestRunFinished"
        THEN "\"" \o TimestampToJSON(event.timestamp) \o "\""
        ELSE "{\"sceneId\":\"" \o ToString(event.sceneId)
                \o "\",\"activityId\":\"" \o ToString(event.activityId)
                \o "\",\"name\":\"" \o event.name
                \o "\",\"outcome\":\"" \o event.outcome.variant \o "\"}"

\* StreamReporterLine without the newline that ends the line
StreamReporterLineUnterminated(event) ==
    "{\"type\":\"" \o event.type \o "\",\"event\":" \o toJSON(event) \o "}"

\* StreamReporter.notifyOf: one line of JSON per event
StreamReporterLine(event) ==
    "{\"type\":\"" \o event.type \o "\",\"event\":" \o toJSON(event) \o "}\n"

\* What a crew member has after it was notified of event; failed records
\* the events its notifyOf did not get through
notified(member, event, fails) ==
    [member EXCEPT
        !.inbox  = Append(@, event),
        !.output = IF member.member = "StreamReporter" /\ ~ fails
                       THEN Append(@, StreamReporterLine(event))
                       ELSE @,
        !.failed = IF fails THEN Append(@, Len(member.inbox) + 1) ELSE @]

\* The fan-out that gives up at the first crew member that fails
notifyOfUntilFailure(members, event, failing) ==
    [m \in DOMAIN members |->
        IF \E l \in 1..(m - 1) : members[l].member \in failing
            THEN members[m]
            ELSE notified(members[m], event, members[m].member \in failing)]

\* Stage.announce, the fan-out: every crew member is notified of the event,
\* in the order they were assigned, whether or not a member before it failed
notifyOf(members, event, failing) ==
    [m \in DOMAIN members |-> notified(members[m], event, members[m].member \in failing)]

RECURSIVE Faults(_)
\* The failures of the crew members so far
Faults(members) ==
    IF members = <<>> THEN 0 ELSE Len(Head(members).failed) + Faults(Tail(members))

\* The sets of crew members that may fail on the next event
MayFail(members) ==
    {failing \in SUBSET (Unreliable \cap Assigned(members)) :
        Faults(members) + Cardinality(failing) <= MaxFaults}

\* Stage.announce(event): the event joins the stream and is forwarded to the
\* crew; any of the unreliable members may fail on it
Announce(event) ==
    /\ events' = announce(events, event)
    /\ \E failing \in MayFail(crew) : crew' = notifyOf(crew, event, failing)

\* The events of the activity tracker; call and idx are not part of the event:
\* they record which attemptsTo call, and which of its activities, announced it
ActivityEvent(type, tracked, outcome, call, idx) ==
    [type       |-> type,
     sceneId    |-> tracked.sceneId,
     activityId |-> tracked.activityId,
     name       |-> tracked.name,
     outcome    |-> outcome,
     call       |-> call,
     idx        |-> idx]

NotTracked == [sceneId |-> 0, activityId |-> 0, name |-> ""]

NoOutcome == Outcome("none", NoError)

\* Stage: a scene begins
SceneStarts ==
    /\ currentScene = 0
    /\ scenes < MaxScenes
    /\ currentScene' = nextId
    /\ nextId' = nextId + 1
    /\ scenes' = scenes + 1
    /\ UNCHANGED <<backstage, registry, upkeep, calls, events, currentActivity, settled>>

\* Stage: the scene ends, the Stage forgets the current scene and activity
SceneFinished ==
    /\ currentScene # 0
    /\ currentScene' = 0
    /\ currentActivity' = 0
    /\ UNCHANGED <<backstage, registry, upkeep, calls, events, nextId, scenes, settled>>

----------------------------------------------------------------------------
(* Actor.attemptsTo and TrackedActivity.performAs *)

\* new TestCompromisedError(`${ name } couldn't initialise the ability to ${ type }`, error)
CouldNotInitialise(actor, ability, error) ==
    [cls   |-> "TestCompromisedError",
     about |-> actor \o " couldn't initialise the ability to " \o ability.type,
     cause |-> <<error>>]

RECURSIVE CatchAll(_, _, _)
\* A rejection travels down the rest of the chain built by initialiseAbilities:
\* the link of the ability that failed and every link behind it, of each of
\* which `.then` is skipped and `.catch` runs
CatchAll(actor, rest, error) ==
    IF rest = <<>> THEN error
    ELSE CatchAll(actor, Tail(rest), CouldNotInitialise(actor, Head(rest), error))

\* initialiseAbilities without .filter(ability => ! ability.isInitialised())
initialiseAbilitiesUnfiltered(map, done) ==
    findAbilitiesOfType(map, {"initialise", "isInitialised"})

\* Actor.initialiseAbilities, its synchronous part: the abilities to initialise
initialiseAbilities(map, done) ==
    LET notInitialised(ability) == ability.id \notin done
    IN  SelectSeq(findAbilitiesOfType(map, {"initialise", "isInitialised"}), notInitialised)

\* Advance with an off-by-one: the next activity is skipped
AdvanceSkipping(call, idx) ==
    IF idx + 2 > Len(call.acts)
        THEN [call EXCEPT !.idx = idx, !.pc = "done", !.status = "resolved", !.cur = NotTracked]
        ELSE [call EXCEPT !.idx = idx + 2, !.pc = "cue", !.cur = NotTracked]

\* The chain after the link before activity number idx + 1 has resolved
Advance(call, idx) ==
    IF idx + 1 > Len(call.acts)
        THEN [call EXCEPT !.idx = idx, !.pc = "done", !.status = "resolved", !.cur = NotTracked]
        ELSE [call EXCEPT !.idx = idx + 1, !.pc = "cue", !.cur = NotTracked]

\* The chain after one of its links has rejected
Reject(call, error) ==
    [call EXCEPT !.pc = "done", !.status = "rejected", !.error = error]

\* Actor.attemptsTo, its synchronous part: the chain it returns
attemptsTo(actor, acts, parent) ==
    LET toInit == initialiseAbilities(abilities[actor], initialised)
        call   == [actor  |-> actor,  acts    |-> acts,      idx     |-> 0,
                   pc     |-> "init", parent  |-> parent,    child   |-> 0,
                   parentIdx |-> IF parent = 0 THEN 0 ELSE calls[parent].idx,
                   toInit |-> toInit, cur     |-> NotTracked,
                   status |-> "pending", error |-> NoError,
                   invoked |-> {},    cues    |-> 0,         cued    |-> 0,
                   held   |-> abilities[actor], wasInitialised |-> initialised]
    IN  IF toInit = <<>> THEN Advance(call, 0) ELSE call

RECURSIVE Invocations(_)
\* The tracked invocations performing acts leads to, when nothing fails
Invocations(acts) ==
    IF acts = <<>> THEN 0
    ELSE 1 + Invocations(SubActivities(Head(acts))) + Invocations(Tail(acts))

Weight(acts) == 1 + Invocations(acts)

RECURSIVE Work(_)
\* The weight of the attemptsTo calls the test has made
Work(chains) ==
    IF chains = <<>> THEN 0
    ELSE (IF Head(chains).parent = 0 THEN Weight(Head(chains).acts) ELSE 0) + Work(Tail(chains))

\* The test calls actor.attemptsTo(...acts)
AttemptsTo(actor, acts) ==
    /\ Work(calls) + Weight(acts) <= MaxWork
    /\ calls' = Append(calls, attemptsTo(actor, acts, 0))
    /\ UNCHANGED <<backstage, registry, upkeep, stage, events, settled>>

\* An entry of the history of initialise and discard invocations: operation op
\* of the ability was invoked by chain number chain (phase "begins"), or the
\* promise it returned resolved or rejected, or the invocation threw
Invocation(op, phase, ability, chain, error) ==
    [op |-> op, phase |-> phase, ability |-> ability, chain |-> chain, error |-> error]

\* initialiseAbilities: .then(() => ability.initialise())
InitialiseBegins(c) ==
    /\ calls[c].pc = "init"
    /\ calls' = [calls EXCEPT ![c].pc = "initialising"]
    /\ lifecycle' = Append(lifecycle,
            Invocation("initialise", "begins", Head(calls[c].toInit), c, NoError))
    /\ UNCHANGED <<backstage, registry, stage, events, settled, lookup, dismissals>>

\* ability.initialise() resolves
InitialiseResolves(c) ==
    /\ calls[c].pc = "initialising"
    /\ initialised' = initialised \cup {Head(calls[c].toInit).id}
    /\ lifecycle' = Append(lifecycle,
            Invocation("initialise", "resolves", Head(calls[c].toInit), c, NoError))
    /\ LET rest == Tail(calls[c].toInit)
       IN  calls' = [calls EXCEPT ![c] =
                IF rest = <<>> THEN Advance([@ EXCEPT !.toInit = rest], 0)
                ELSE [@ EXCEPT !.toInit = rest, !.pc = "init"]]
    /\ UNCHANGED <<backstage, stage, abilities, events, grants, lastGrant, granted, settled,
                   lookup, dismissals>>

\* InitialiseRejects where the failure is swallowed and the chain carries on
\* with the next ability, or with the activities
InitialiseRejectsCarriesOn(c, error) ==
    /\ calls[c].pc = "initialising"
    /\ lifecycle' = Append(lifecycle,
            Invocation("initialise", "rejects", Head(calls[c].toInit), c, error))
    /\ LET rest == Tail(calls[c].toInit)
       IN  calls' = [calls EXCEPT ![c] =
                IF rest = <<>> THEN Advance([@ EXCEPT !.toInit = rest], 0)
                ELSE [@ EXCEPT !.toInit = rest, !.pc = "init"]]
    /\ UNCHANGED <<backstage, registry, stage, events, settled, lookup, dismissals>>

\* ability.initialise() rejects with error
InitialiseRejects(c, error) ==
    /\ calls[c].pc = "initialising"
    /\ calls' = [calls EXCEPT ![c] =
            Reject([@ EXCEPT !.toInit = <<>>], CatchAll(@.actor, @.toInit, error))]
    /\ lifecycle' = Append(lifecycle,
            Invocation("initialise", "rejects", Head(calls[c].toInit), c, error))
    /\ UNCHANGED <<backstage, registry, stage, events, settled, lookup, dismissals>>

\* WaitForNextCue with the promise of waitForNextCue dropped: the chain goes
\* on to the activity while the Stage is still waiting
WaitForNextCueNotAwaited(c) ==
    /\ calls[c].pc = "cue"
    /\ calls' = [calls EXCEPT ![c].pc = "track", ![c].cues = @ + 1]
    /\ UNCHANGED <<backstage, registry, upkeep, stage, events, settled>>

\* attemptsTo: .then(() => this.stage.waitForNextCue())
WaitForNextCue(c) ==
    /\ calls[c].pc = "cue"
    /\ calls' = [calls EXCEPT ![c].pc = "cueing", ![c].cues = @ + 1]
    /\ UNCHANGED <<backstage, registry, upkeep, stage, events, settled>>

\* Stage.waitForNextCue() resolves
CueResolves(c) ==
    /\ calls[c].pc = "cueing"
    /\ calls' = [calls EXCEPT ![c].pc = "track", ![c].cued = @ + 1]
    /\ UNCHANGED <<backstage, registry, upkeep, stage, events, settled>>

\* Stage.waitForNextCue() rejects
CueRejects(c) ==
    /\ calls[c].pc = "cueing"
    /\ calls' = [calls EXCEPT ![c] = Reject(@, Err("TimeoutExpiredError"))]
    /\ UNCHANGED <<backstage, registry, upkeep, stage, events, settled>>

Activity(c) == calls[c].acts[calls[c].idx]

\* Stage.assignNewActivityId: the id it returns, which becomes the Stage's
\* current activity id
assignNewActivityId == nextId

\* TrackedPerformAs asking the Stage for its current activity id when it has
\* one, instead of a new one
TrackedPerformAsWithCurrentId(c) ==
    /\ calls[c].pc = "track"
    /\ IF currentScene = 0
         THEN /\ calls' = [calls EXCEPT ![c] = Reject(@, Err("LogicError"))]
              /\ UNCHANGED <<currentActivity, nextId>>
         ELSE LET activityId == IF currentActivity # 0 THEN currentActivity
                                                       ELSE assignNewActivityId
              IN  /\ calls' = [calls EXCEPT
                        ![c].pc  = "starts",
                        ![c].cur = [sceneId    |-> currentScene,
                                    activityId |-> activityId,
                                    name       |-> describe(Activity(c), calls[c].actor)]]
                  /\ currentActivity' = activityId
                  /\ nextId' = nextId + 1
    /\ UNCHANGED <<backstage, registry, upkeep, events, currentScene, scenes, settled>>

\* TrackedPerformAs asking the Stage for a new activity id before it reads the
\* scene id
TrackedPerformAsAssigningFirst(c) ==
    /\ calls[c].pc = "track"
    /\ IF currentScene = 0
         THEN calls' = [calls EXCEPT ![c] = Reject(@, Err("LogicError"))]
         ELSE calls' = [calls EXCEPT
                    ![c].pc  = "starts",
                    ![c].cur = [sceneId    |-> currentScene,
                                activityId |-> assignNewActivityId,
                                name       |-> describe(Activity(c), calls[c].actor)]]
    /\ currentActivity' = assignNewActivityId
    /\ nextId' = nextId + 1
    /\ UNCHANGED <<backstage, registry, upkeep, events, currentScene, scenes, settled>>

\* attemptsTo: .then(() => current.performAs(this)), which runs the synchronous
\* part of TrackedActivity.performAs
TrackedPerformAs(c) ==
    /\ calls[c].pc = "track"
    /\ IF currentScene = 0
         THEN /\ calls' = [calls EXCEPT ![c] = Reject(@, Err("LogicError"))]
              /\ UNCHANGED <<currentActivity, nextId>>
         ELSE /\ calls' = [calls EXCEPT
                    ![c].pc  = "starts",
                    ![c].cur = [sceneId    |-> currentScene,
                                activityId |-> assignNewActivityId,
                                name       |-> describe(Activity(c), calls[c].actor)]]
              /\ currentActivity' = assignNewActivityId
              /\ nextId' = nextId + 1
    /\ UNCHANGED <<backstage, registry, upkeep, events, currentScene, scenes, settled>>

\* TrackedActivity.performAs: the [ activityStarts, activityFinished ] pair
activityStarts(activity) ==
    IF IsInteraction(activity) THEN "InteractionStarts" ELSE "TaskStarts"

\* activityFinished that takes the Task pair whatever the activity is
activityFinishedOfATask(activity) == "TaskFinished"

activityFinished(activity) ==
    IF IsInteraction(activity) THEN "InteractionFinished" ELSE "TaskFinished"

\* AnnounceStarts where the failure of a crew member comes out of
\* stage.announce and rejects the chain
AnnounceStartsAbortedByCrew(c) ==
    /\ calls[c].pc = "starts"
    /\ events' = announce(events, ActivityEvent(activityStarts(Activity(c)), calls[c].cur,
                                                NoOutcome, c, calls[c].idx))
    /\ \E failing \in MayFail(crew) :
            /\ crew' = notifyOf(crew, ActivityEvent(activityStarts(Activity(c)), calls[c].cur,
                                                    NoOutcome, c, calls[c].idx), failing)
            /\ calls' = [calls EXCEPT ![c] =
                            IF failing = {} THEN [@ EXCEPT !.pc = "perform"]
                                            ELSE Reject(@, Err("Error"))]
    /\ UNCHANGED <<annex, desk, registry, upkeep, stage, settled>>

\* TrackedActivity.performAs: .then(() => this.stage.announce(new activityStarts(...)))
AnnounceStarts(c) ==
    /\ calls[c].pc = "starts"
    /\ Announce(ActivityEvent(activityStarts(Activity(c)), calls[c].cur,
                                                NoOutcome, c, calls[c].idx))
    /\ calls' = [calls EXCEPT ![c].pc = "perform"]
    /\ UNCHANGED <<annex, desk, registry, upkeep, stage, settled>>

\* PerformAs with the promise of the activity dropped: the chain goes on to
\* its next link while the activity is still at work
PerformAsNotAwaited(c) ==
    /\ calls[c].pc = "perform"
    /\ calls' = [calls EXCEPT ![c] = Advance([@ EXCEPT !.invoked = @ \cup {calls[c].idx}], @.idx)]
    /\ UNCHANGED <<backstage, registry, upkeep, stage, events, settled>>

\* TrackedActivity.performAs: .then(() => this.activity.performAs(actor));
\* a Task with sub-activities returns actor.attemptsTo(...subActivities)
PerformAs(c) ==
    /\ calls[c].pc = "perform"
    /\ IF SubActivities(Activity(c)) = <<>>
         THEN calls' = [calls EXCEPT ![c].pc = "running",
                                     ![c].invoked = @ \cup {calls[c].idx}]
         ELSE calls' = Append([calls EXCEPT ![c].pc = "awaiting",
                                            ![c].invoked = @ \cup {calls[c].idx},
                                            ![c].child = Len(calls) + 1],
                              attemptsTo(calls[c].actor, SubActivities(Activity(c)), c))
    /\ UNCHANGED <<backstage, registry, upkeep, stage, events, settled>>

\* TrackedActivity.performAs: the .then callback after this.activity.performAs
Succeeded(c) ==
    /\ Announce(ActivityEvent(activityFinished(Activity(c)), calls[c].cur,
                                                ExecutionSuccessful, c, calls[c].idx))
    /\ calls' = [calls EXCEPT ![c] = Advance(@, @.idx)]

\* Failed without `throw error`: the failure is announced and swallowed
FailedButCarriesOn(c, error) ==
    /\ Announce(ActivityEvent(activityFinished(Activity(c)), calls[c].cur,
                                                outcomeFor(error), c, calls[c].idx))
    /\ calls' = [calls EXCEPT ![c] = Advance(@, @.idx)]

\* Failed rethrowing a wrapper of the error instead of the error
FailedRethrowsWrapped(c, error) ==
    /\ Announce(ActivityEvent(activityFinished(Activity(c)), calls[c].cur,
                                                outcomeFor(error), c, calls[c].idx))
    /\ calls' = [calls EXCEPT ![c] =
            Reject(@, [cls |-> "TestCompromisedError", about |-> "", cause |-> <<error>>])]

\* Failed announcing the Stage's current activity id instead of the id it was given
FailedWithCurrentActivityId(c, error) ==
    /\ Announce(ActivityEvent(activityFinished(Activity(c)),
                          [calls[c].cur EXCEPT !.activityId = currentActivity],
                          outcomeFor(error), c, calls[c].idx))
    /\ calls' = [calls EXCEPT ![c] = Reject(@, error)]

\* TrackedActivity.performAs: the .catch callback
Failed(c, error) ==
    /\ Announce(ActivityEvent(activityFinished(Activity(c)), calls[c].cur,
                                                outcomeFor(error), c, calls[c].idx))
    /\ calls' = [calls EXCEPT ![c] = Reject(@, error)]

\* How the performAs of the wrapped activity settled: NoError when it resolved
Settlement(c, value) == [call |-> c, idx |-> calls[c].idx, value |-> value]

\* The activity's own work succeeds
ActivityResolves(c) ==
    /\ calls[c].pc = "running"
    /\ Succeeded(c)
    /\ settled' = Append(settled, Settlement(c, NoError))
    /\ UNCHANGED <<annex, desk, registry, upkeep, stage>>

\* The activity's own work fails with error
ActivityRejects(c, error) ==
    /\ calls[c].pc = "running"
    /\ Failed(c, error)
    /\ settled' = Append(settled, Settlement(c, error))
    /\ UNCHANGED <<annex, desk, registry, upkeep, stage>>

\* SubActivitiesSettled without waiting for the promise the Task returned
SubActivitiesNotAwaited(c) ==
    /\ calls[c].pc = "awaiting"
    /\ Succeeded(c)
    /\ settled' = Append(settled, Settlement(c, NoError))
    /\ UNCHANGED <<annex, desk, registry, upkeep, stage>>

\* The promise a Task returned from actor.attemptsTo has settled
SubActivitiesSettled(c) ==
    /\ calls[c].pc = "awaiting"
    /\ calls[calls[c].child].status # "pending"
    /\ IF calls[calls[c].child].status = "resolved"
         THEN Succeeded(c)
         ELSE Failed(c, calls[calls[c].child].error)
    /\ settled' = Append(settled, Settlement(c, calls[calls[c].child].error))
    /\ UNCHANGED <<annex, desk, registry, upkeep, stage>>

----------------------------------------------------------------------------
(* The activity pipeline: specification Spec *)

\* The attemptsTo calls the test makes: actor.attemptsTo(...acts)
Scripts ==
    { [actor |-> "Wendy", acts |-> <<"Click", "Navigate", "Ensure">>],
      [actor |-> "Wendy", acts |-> <<"CheckOut">>],
      [actor |-> "Wendy", acts |-> <<>>],
      [actor |-> "Mocha", acts |-> <<"LogIn", "Click">>],
      [actor |-> "Mocha", acts |-> <<"Click", "Navigate">>],
      [actor |-> "Mocha", acts |-> <<"Click">>] }

\* The values an activity's own work fails with
Failures == { Err("AssertionError"), Err("TypeError") }

\* A WebdriverIOBrowsingSession just constructed: the browser has one
\* window, no page is registered, no call was made
NoBrowsing ==
    [windows |-> {"w1"}, pages |-> <<>>, scans |-> <<>>, nextPage |-> 1, changes |-> 0]

\* No EventQueueProcessors.process call was made yet
NoReports == [asked |-> FALSE, queues |-> <<>>, results |-> <<>>,
              invocations |-> <<>>, error |-> NoError]

\* A scene has begun (scene 1), the actors have no abilities
Init ==
    /\ abilities = [actor \in Actors |-> <<>>]
    /\ initialised = {}
    /\ calls = <<>>
    /\ events = <<>>
    /\ currentScene = 1
    /\ currentActivity = 0
    /\ nextId = 2
    /\ scenes = 1
    /\ grants = 0
    /\ lastGrant = NoError
    /\ granted = [actor \in Actors |-> <<>>]
    /\ settled = <<>>
    /\ lookup = NoLookup
    /\ dismissals = <<>>
    /\ lifecycle = <<>>
    /\ collections = <<>>
    /\ answers = <<>>
    /\ crew = <<>>
    /\ browsing = NoBrowsing
    /\ reports = NoReports

Chains == 1..Len(calls)

Next ==
    \/ SceneFinished
    \/ \E script \in Scripts : AttemptsTo(script.actor, script.acts)
    \/ \E c \in Chains : WaitForNextCue(c)
    \/ \E c \in Chains : CueResolves(c)
    \/ \E c \in Chains : CueRejects(c)
    \/ \E c \in Chains : TrackedPerformAs(c)
    \/ \E c \in Chains : AnnounceStarts(c)
    \/ \E c \in Chains : PerformAs(c)
    \/ \E c \in Chains : ActivityResolves(c)
    \/ \E c \in Chains, error \in Failures : ActivityRejects(c, error)
    \/ \E c \in Chains : SubActivitiesSettled(c)

Spec == Init /\ [][Next]_vars

----------------------------------------------------------------------------
(* Properties of the activity pipeline *)

IsStarts(event) == event.type \in {"InteractionStarts", "TaskStarts"}

IsFinished(event) == event.type \in {"InteractionFinished", "TaskFinished"}

\* Where in the stream activity number i of chain c was announced to start, to finish
StartsOf(c, i) ==
    {k \in 1..Len(events) : IsStarts(events[k]) /\ events[k].call = c /\ events[k].idx = i}

FinishedOf(c, i) ==
    {k \in 1..Len(events) : IsFinished(events[k]) /\ events[k].call = c /\ events[k].idx = i}

\* The settlements of activity number i of chain c
SettledOf(c, i) ==
    {k \in 1..Len(settled) : settled[k].call = c /\ settled[k].idx = i}

RECURSIVE Ancestors(_)
\* The activities enclosing chain c: <<chain, activity number>>, up to the test's call
Ancestors(c) ==
    IF calls[c].parent = 0 THEN {}
    ELSE {<<calls[c].parent, calls[c].parentIdx>>} \cup Ancestors(calls[c].parent)

Encloses(p, c) == \E a \in Ancestors(c) : a[1] = p

\* Chain c has an activity that was announced to start and not yet to finish
InProgress(c) ==
    /\ calls[c].idx >= 1
    /\ StartsOf(c, calls[c].idx) # {}
    /\ FinishedOf(c, calls[c].idx) = {}

\* C1: attemptsTo is fail-fast: once activity number i of a call has failed, the
\* call is rejected with the error of that activity, no later activity of the
\* call has its performAs invoked, and no event of a later activity is announced.
C1_FailFast ==
    \A k \in 1..Len(settled) :
        LET c == settled[k].call
            i == settled[k].idx
        IN  settled[k].value # NoError =>
                /\ calls[c].status = "rejected"
                /\ calls[c].error = settled[k].value
                /\ calls[c].pc = "done"
                /\ \A j \in calls[c].invoked : j <= i
                /\ \A e \in 1..Len(events) : events[e].call = c => events[e].idx <= i

\* [ok, failing, ok2]: the first activity succeeded, the second failed
C1_Witness ==
    \E c \in Chains :
        /\ Len(calls[c].acts) = 3
        /\ \E k \in SettledOf(c, 1) : settled[k].value = NoError
        /\ \E k \in SettledOf(c, 2) : settled[k].value # NoError
        /\ calls[c].status = "rejected"

\* C2, as claimed: no activity is in progress together with an activity of
\* another attemptsTo call, unless one of the two encloses the other.
C2_NeverConcurrent ==
    \A c1, c2 \in Chains :
        (c1 # c2 /\ InProgress(c1) /\ InProgress(c2)) => (Encloses(c1, c2) \/ Encloses(c2, c1))

\* C2, amended: of the activities passed to one attemptsTo call at most one is
\* in progress (announced to start and not yet to finish) at any time.
C2_OneAtATimePerCall ==
    \A c \in Chains :
        Cardinality({i \in 1..Len(calls[c].acts) :
                        StartsOf(c, i) # {} /\ FinishedOf(c, i) = {}}) <= 1

\* Two calls of the test are in progress together, one of them at its second activity
C2_Witness ==
    \E c1, c2 \in Chains :
        /\ c1 # c2
        /\ calls[c1].parent = 0 /\ calls[c2].parent = 0
        /\ InProgress(c1) /\ InProgress(c2)
        /\ calls[c1].idx >= 2

\* C3: the activities of one attemptsTo call are performed in the order given:
\* an activity is announced to start only after the activity before it was
\* announced to finish, and the Starts events of the call are in argument order.
C3_InArgumentOrder ==
    \A c \in Chains :
        /\ \A i \in 2..Len(calls[c].acts) : \A k \in StartsOf(c, i) :
                \E j \in FinishedOf(c, i - 1) : j < k
        /\ \A k1, k2 \in 1..Len(events) :
                (/\ k1 < k2
                 /\ IsStarts(events[k1]) /\ events[k1].call = c
                 /\ IsStarts(events[k2]) /\ events[k2].call = c)
                    => events[k1].idx < events[k2].idx

\* All three activities of a call were announced to start
C3_Witness ==
    \E c \in Chains :
        /\ Len(calls[c].acts) = 3
        /\ \A i \in 1..3 : StartsOf(c, i) # {}

\* C4: the tracker never swallows a failure: when the performAs of the wrapped
\* activity fails with an error, a Finished event carrying that error in a
\* problem outcome is announced, and the chain is rejected with that same error.
C4_NeverSwallows ==
    \A k \in 1..Len(settled) :
        LET c == settled[k].call
            i == settled[k].idx
        IN  settled[k].value # NoError =>
                /\ \E e \in FinishedOf(c, i) :
                        /\ events[e].outcome.variant # "ExecutionSuccessful"
                        /\ events[e].outcome.error = settled[k].value
                /\ calls[c].status = "rejected"
                /\ calls[c].error = settled[k].value

\* A sub-activity failed, and the Task performing it failed with the same error
C4_Witness ==
    \E c \in Chains :
        /\ calls[c].parent # 0
        /\ calls[c].status = "rejected"
        /\ calls[calls[c].parent].status = "rejected"
        /\ calls[calls[c].parent].error = calls[c].error
        /\ FinishedOf(calls[c].parent, calls[c].parentIdx) # {}

\* C5: every tracked invocation is announced to start once and to finish once,
\* in that order, with the same scene id, activity id and name; the outcome is
\* ExecutionSuccessful exactly when the performAs of the wrapped activity resolved.
C5_ExactlyOneOutcome ==
    \A c \in Chains : \A i \in 1..Len(calls[c].acts) :
        /\ Cardinality(StartsOf(c, i)) <= 1
        /\ Cardinality(FinishedOf(c, i)) <= 1
        /\ i \in calls[c].invoked => Cardinality(StartsOf(c, i)) = 1
        /\ Cardinality(FinishedOf(c, i)) = Cardinality(SettledOf(c, i))
        /\ \A k \in FinishedOf(c, i) :
            /\ \E j \in StartsOf(c, i) :
                /\ j < k
                /\ events[j].sceneId = events[k].sceneId
                /\ events[j].activityId = events[k].activityId
                /\ events[j].name = events[k].name
            /\ \A m \in SettledOf(c, i) :
                (events[k].outcome.variant = "ExecutionSuccessful") <=> (settled[m].value = NoError)

\* One invocation has finished successfully, another with a problem
C5_Witness ==
    /\ \E k \in 1..Len(events) :
        IsFinished(events[k]) /\ events[k].outcome.variant = "ExecutionSuccessful"
    /\ \E k \in 1..Len(events) :
        IsFinished(events[k]) /\ events[k].outcome.variant # "ExecutionSuccessful"
    /\ \E c \in Chains : calls[c].parent # 0 /\ calls[calls[c].parent].status = "rejected"

\* C6: the events of nested activities are well bracketed: every event of a
\* sub-activity comes after the Starts event and before the Finished event of
\* every activity that encloses it, at any depth.
C6_WellBracketed ==
    \A k \in 1..Len(events) :
        \A a \in Ancestors(events[k].call) :
            /\ \E j \in StartsOf(a[1], a[2]) : j < k
            /\ \A j \in FinishedOf(a[1], a[2]) : k < j

\* An activity two levels down has finished, and so has the outermost activity
C6_Witness ==
    \E c \in Chains :
        /\ calls[c].parent # 0
        /\ calls[calls[c].parent].parent # 0
        /\ FinishedOf(c, 1) # {}
        /\ LET p == calls[calls[c].parent].parent
           IN  FinishedOf(p, calls[calls[c].parent].parentIdx) # {}


----------------------------------------------------------------------------
(* Outcome classification: specification SpecOutcome *)

\* The values an activity can throw: errors of the framework, errors of
\* assertion libraries, subclasses of both, and values that are not errors
ThrownValues ==
    { Err(cls) : cls \in
        { "ImplementationPendingError", "TestCompromisedError", "AssertionError",
          "chai.AssertionError", "JestAssertionError", "StrictAssertionError",
          "PendingAssertionError", "CompromisedAssertionError",
          "Error", "TypeError", "ConfigurationError",
          "String", "Object", "undefined" } }

OutcomeScripts ==
    { [actor |-> "Wendy", acts |-> <<"Ensure">>],
      [actor |-> "Mocha", acts |-> <<"LogIn">>] }

\* The test awaits each attemptsTo call before it makes the next
AttemptsToInTurn(actor, acts) ==
    /\ \A c \in Chains : calls[c].status # "pending"
    /\ AttemptsTo(actor, acts)

NextOutcome ==
    \/ \E script \in OutcomeScripts : AttemptsToInTurn(script.actor, script.acts)
    \/ \E c \in Chains : WaitForNextCue(c)
    \/ \E c \in Chains : CueResolves(c)
    \/ \E c \in Chains : TrackedPerformAs(c)
    \/ \E c \in Chains : AnnounceStarts(c)
    \/ \E c \in Chains : PerformAs(c)
    \/ \E c \in Chains : ActivityResolves(c)
    \/ \E c \in Chains, error \in ThrownValues : ActivityRejects(c, error)
    \/ \E c \in Chains : SubActivitiesSettled(c)

SpecOutcome == Init /\ [][NextOutcome]_vars

\* The problems announced so far: positions of Finished events with a problem outcome
Problems ==
    {k \in 1..Len(events) :
        IsFinished(events[k]) /\ events[k].outcome.variant # "ExecutionSuccessful"}

\* The variant the classification is to give a thrown value of each class
C7_Expected(cls) ==
    CASE cls \in {"ImplementationPendingError", "PendingAssertionError"}
            -> "ImplementationPending"
      [] cls \in {"TestCompromisedError", "CompromisedAssertionError"}
            -> "ExecutionCompromised"
      [] cls \in {"AssertionError", "StrictAssertionError"}
            -> "ExecutionFailedWithAssertionError"
      [] cls \in {"chai.AssertionError", "JestAssertionError"}
            -> "ExecutionFailedWithAssertionError"
      [] cls \in {"Error", "TypeError", "ConfigurationError"}
            -> "ExecutionFailedWithError"
      [] cls \in {"String", "Object", "undefined"}
            -> "ExecutionFailedWithError"

\* C7: outcome classification is total and deterministic: every value an
\* activity fails with is announced with exactly one outcome, of the variant
\* that belongs to the class of the value, and equal values get equal outcomes.
C7_TotalAndDeterministic ==
    /\ \A k \in 1..Len(settled) :
        settled[k].value # NoError =>
            /\ Cardinality(FinishedOf(settled[k].call, settled[k].idx)) = 1
            /\ \A e \in FinishedOf(settled[k].call, settled[k].idx) :
                /\ events[e].outcome.variant = C7_Expected(settled[k].value.cls)
                /\ events[e].outcome.error = settled[k].value
    /\ \A e1, e2 \in Problems :
        events[e1].outcome.error = events[e2].outcome.error
            => events[e1].outcome.variant = events[e2].outcome.variant

\* The error of an assertion library (not the framework's AssertionError) was
\* classified, and so was a value that is not an Error
C7_Witness ==
    /\ \E e \in Problems : events[e].outcome.error.cls = "chai.AssertionError"
    /\ \E e \in Problems : events[e].outcome.error.cls = "String"

\* The shapes of the classification, in the order of their priority
C8_Shapes == <<"pending", "compromised", "assertion", "name", "generic">>

C8_HasShape(error, shape) ==
    CASE shape = "pending"     -> InstanceOf(error.cls, "ImplementationPendingError")
      [] shape = "compromised" -> InstanceOf(error.cls, "TestCompromisedError")
      [] shape = "assertion"   -> InstanceOf(error.cls, "AssertionError")
      [] shape = "name"        -> /\ InstanceOf(error.cls, "Error")
                                  /\ RegExpTest("AssertionError", ConstructorName(error.cls))
      [] shape = "generic"     -> TRUE

C8_VariantOf(shape) ==
    CASE shape = "pending"     -> "ImplementationPending"
      [] shape = "compromised" -> "ExecutionCompromised"
      [] shape = "assertion"   -> "ExecutionFailedWithAssertionError"
      [] shape = "name"        -> "ExecutionFailedWithAssertionError"
      [] shape = "generic"     -> "ExecutionFailedWithError"

C8_FirstShape(error) ==
    C8_Shapes[CHOOSE i \in 1..Len(C8_Shapes) :
                /\ C8_HasShape(error, C8_Shapes[i])
                /\ \A j \in 1..(i - 1) : ~ C8_HasShape(error, C8_Shapes[j])]

\* C8: the classification is ordered, pending > compromised > framework
\* assertion > name pattern > generic: a value of several shapes gets the
\* variant of the first of its shapes.
C8_FirstMatchWins ==
    \A e \in Problems :
        events[e].outcome.variant = C8_VariantOf(C8_FirstShape(events[e].outcome.error))

\* A subclass of ImplementationPendingError and a subclass of TestCompromisedError,
\* both named like an assertion error, were classified
C8_Witness ==
    /\ \E e \in Problems :
        /\ events[e].outcome.error.cls = "PendingAssertionError"
        /\ C8_HasShape(events[e].outcome.error, "pending")
        /\ C8_HasShape(events[e].outcome.error, "name")
    /\ \E e \in Problems :
        /\ events[e].outcome.error.cls = "CompromisedAssertionError"
        /\ C8_HasShape(events[e].outcome.error, "compromised")
        /\ C8_HasShape(events[e].outcome.error, "name")


----------------------------------------------------------------------------
(* The ability registry: specification SpecAbilities *)

RECURSIVE Stored(_)
\* The abilities a whoCan call stores: those given before the first value
\* that is not an Ability
Stored(given) ==
    IF given = <<>> \/ ~ IsAbility(Head(given)) THEN <<>>
    ELSE <<Head(given)>> \o Stored(Tail(given))

\* The test calls actor.whoCan(...given)
WhoCan(actor, given) ==
    /\ grants < MaxGrants
    /\ LET result == whoCan(abilities[actor], given)
       IN  /\ abilities' = [abilities EXCEPT ![actor] = result.map]
           /\ lastGrant' = result.error
    /\ grants' = grants + 1
    /\ granted' = [granted EXCEPT ![actor] = @ \o Stored(given)]
    /\ UNCHANGED <<backstage, initialised, stage, calls, events, settled, upkeep>>

Instance(id) == CHOOSE ability \in Instances : ability.id = id

\* The argument lists the test passes to whoCan
Gifts ==
    { <<ability>> : ability \in Instances }
        \cup { <<Instance(6), Instance(8), Instance(7)>>, <<Instance(1), Instance(5)>> }

NextAbilities ==
    \E actor \in Actors, given \in Gifts : WhoCan(actor, given)

SpecAbilities == Init /\ [][NextAbilities]_vars

\* The root capability family of each ability type
C9_Family(type) ==
    CASE type \in {"BrowseTheWeb", "BrowseTheWebWithProtractor",
                   "BrowseTheWebWithWebdriverIO", "BrowseWithHeadlessChrome"} -> "BrowseTheWeb"
      [] type = "CallAnApi" -> "CallAnApi"
      [] type = "TakeNotes" -> "TakeNotes"

\* The abilities of a family an actor was granted, in the order of the grants
C9_GrantedOf(actor, family) ==
    LET ofFamily(ability) == C9_Family(ability.type) = family
    IN  SelectSeq(granted[actor], ofFamily)

C10_NoSecondAbilityOfAType ==
    \A actor \in Actors : \A k \in 1..(Len(granted[actor]) - 1) :
        granted[actor][k].type # granted[actor][k + 1].type


----------------------------------------------------------------------------
(* Resolving abilities: specification SpecAbilityTo *)

\* The test calls actor.abilityTo(abilityType)
AbilityTo(actor, abilityType) ==
    /\ LET result == abilityTo(abilities[actor], actor, abilityType)
       IN  lookup' = [actor |-> actor, type  |-> abilityType, held |-> abilities[actor],
                      found |-> result.found, error |-> result.error]
    /\ UNCHANGED <<backstage, registry, stage, calls, events, settled, dismissals, lifecycle>>

NextAbilityTo ==
    \/ \E given \in Gifts : WhoCan("Wendy", given)
    \/ \E actor \in Actors, abilityType \in AbilityTypes : AbilityTo(actor, abilityType)

SpecAbilityTo == Init /\ [][NextAbilityTo]_vars

\* An abilityTo call was made
Looked == lookup # NoLookup

\* The abilities the actor held when the last abilityTo call was made
Held == MapValues(lookup.held)

\* C11, as claimed: an ability abilityTo(T) returns is an instance of T, and
\* abilityTo(T) throws a ConfigurationError when the actor holds no instance of T.
C11_ReturnsAnInstanceOfT ==
    Looked =>
        /\ lookup.found # None => IsSubtypeOf(lookup.found.type, lookup.type)
        /\ (\A i \in 1..Len(Held) : ~ IsSubtypeOf(Held[i].type, lookup.type))
                => lookup.error.cls = "ConfigurationError"

\* The names the message is to list: one for each ability held, in the order
\* of the Map, each ability named by the root type of its family
C12_Names == [i \in 1..Len(Held) |-> C9_Family(Held[i].type)]

C12_Message ==
    IF Held = <<>>
        THEN lookup.actor \o " can't " \o lookup.type \o " yet. "
                \o "Did you give them the ability to do so?"
        ELSE lookup.actor \o " can " \o Join(C12_Names, ", ") \o ". "
                \o "They can't, however, " \o lookup.type \o " yet. "
                \o "Did you give them the ability to do so?"

\* C12: when abilityTo(T) fails it throws a ConfigurationError whose message is
\* "<name> can't <T> yet. ..." for an actor without abilities, and lists every
\* ability held before saying they can't <T> yet otherwise; and an abilityTo
\* call leaves the abilities of every actor as they were.
C12_MessageListsAbilities ==
    /\ [](Looked /\ lookup.error # NoError =>
            /\ lookup.error.cls = "ConfigurationError"
            /\ lookup.error.about = C12_Message)
    /\ [][lookup' # lookup => abilities' = abilities]_vars

\* abilityTo failed for an actor holding two abilities, one of them stored
\* under the type two classes above its own
C12_Witness ==
    /\ Looked /\ lookup.error # NoError
    /\ Len(Held) = 2
    /\ Held[1].type = "BrowseWithHeadlessChrome"
    /\ lookup.type = "TakeNotes"
    /\ lookup.actor = "Wendy"

----------------------------------------------------------------------------
(* Actor.dismiss: specification SpecDismiss *)

\* dismiss without the filter of findAbilitiesOfType: every ability is discarded
dismissEveryAbility(actor) ==
    LET discardable == MapValues(abilities[actor])
    IN  [actor     |-> actor,
         held      |-> abilities[actor],
         granted   |-> granted[actor],
         toDiscard |-> discardable,
         pc        |-> IF discardable = <<>> THEN "done" ELSE "next",
         status    |-> IF discardable = <<>> THEN "resolved" ELSE "pending",
         error     |-> NoError]

\* dismiss discarding every Discardable ability the actor was ever given,
\* whether it still holds it or not
dismissEverGranted(actor) ==
    LET discardable == SelectSeq(granted[actor], LAMBDA ability : HasMethod(ability, "discard"))
    IN  [actor     |-> actor,
         held      |-> abilities[actor],
         granted   |-> granted[actor],
         toDiscard |-> discardable,
         pc        |-> IF discardable = <<>> THEN "done" ELSE "next",
         status    |-> IF discardable = <<>> THEN "resolved" ELSE "pending",
         error     |-> NoError]

\* Actor.dismiss, its synchronous part: the chain it returns
dismiss(actor) ==
    LET discardable == findAbilitiesOfType(abilities[actor], {"discard"})
    IN  [actor     |-> actor,
         held      |-> abilities[actor],
         granted   |-> granted[actor],
         toDiscard |-> discardable,
         pc        |-> IF discardable = <<>> THEN "done" ELSE "next",
         status    |-> IF discardable = <<>> THEN "resolved" ELSE "pending",
         error     |-> NoError]

\* Dismiss emptying the actor's ability map: abilities.clear() with the chain
DismissForgettingAbilities(actor) ==
    /\ Len(dismissals) < MaxDismissals
    /\ dismissals' = Append(dismissals, dismiss(actor))
    /\ abilities' = [abilities EXCEPT ![actor] = <<>>]
    /\ UNCHANGED <<backstage, initialised, grants, lastGrant, granted, stage, calls,
                   events, settled, lookup, lifecycle>>

\* The test calls actor.dismiss()
Dismiss(actor) ==
    /\ Len(dismissals) < MaxDismissals
    /\ dismissals' = Append(dismissals, dismiss(actor))
    /\ UNCHANGED <<backstage, registry, stage, calls, events, settled, lookup, lifecycle>>

\* DiscardBegins not waiting for the discard before: previous.then dropped
DiscardBeginsNotAwaited(d) ==
    /\ dismissals[d].pc \in {"next", "discarding"}
    /\ LET rest == IF dismissals[d].pc = "next" THEN dismissals[d].toDiscard
                                                ELSE Tail(dismissals[d].toDiscard)
       IN  /\ rest # <<>>
           /\ lifecycle' = Append(lifecycle,
                    Invocation("discard", "begins", Head(rest), d, NoError))
           /\ dismissals' = [dismissals EXCEPT ![d].pc = "discarding", ![d].toDiscard = rest]
    /\ UNCHANGED <<backstage, registry, stage, calls, events, settled, lookup>>

\* dismiss: previous.then(() => ability.discard()), discard returns a promise
DiscardBegins(d) ==
    /\ dismissals[d].pc = "next"
    /\ lifecycle' = Append(lifecycle,
            Invocation("discard", "begins", Head(dismissals[d].toDiscard), d, NoError))
    /\ dismissals' = [dismissals EXCEPT ![d].pc = "discarding"]
    /\ UNCHANGED <<backstage, registry, stage, calls, events, settled, lookup>>

\* dismiss: previous.then(() => ability.discard()), discard throws: the
\* promise of the .then rejects, and so does every promise chained behind it
DiscardThrows(d, error) ==
    /\ dismissals[d].pc = "next"
    /\ lifecycle' = Append(lifecycle,
            Invocation("discard", "throws", Head(dismissals[d].toDiscard), d, error))
    /\ dismissals' = [dismissals EXCEPT ![d].pc = "done", ![d].status = "rejected",
                                        ![d].error = error]
    /\ UNCHANGED <<backstage, registry, stage, calls, events, settled, lookup>>

\* The promise of ability.discard() resolves
DiscardResolves(d) ==
    /\ dismissals[d].pc = "discarding"
    /\ lifecycle' = Append(lifecycle,
            Invocation("discard", "resolves", Head(dismissals[d].toDiscard), d, NoError))
    /\ LET rest == Tail(dismissals[d].toDiscard)
       IN  dismissals' = [dismissals EXCEPT ![d] =
                IF rest = <<>>
                    THEN [@ EXCEPT !.toDiscard = rest, !.pc = "done", !.status = "resolved"]
                    ELSE [@ EXCEPT !.toDiscard = rest, !.pc = "next"]]
    /\ UNCHANGED <<backstage, registry, stage, calls, events, settled, lookup>>

\* DiscardRejects with the rejection caught: the chain goes on to the next ability
DiscardRejectsCaught(d, error) ==
    /\ dismissals[d].pc = "discarding"
    /\ lifecycle' = Append(lifecycle,
            Invocation("discard", "rejects", Head(dismissals[d].toDiscard), d, error))
    /\ LET rest == Tail(dismissals[d].toDiscard)
       IN  dismissals' = [dismissals EXCEPT ![d] =
                IF rest = <<>>
                    THEN [@ EXCEPT !.toDiscard = rest, !.pc = "done", !.status = "resolved"]
                    ELSE [@ EXCEPT !.toDiscard = rest, !.pc = "next"]]
    /\ UNCHANGED <<backstage, registry, stage, calls, events, settled, lookup>>

\* The promise of ability.discard() rejects: every .then chained behind it is skipped
DiscardRejects(d, error) ==
    /\ dismissals[d].pc = "discarding"
    /\ lifecycle' = Append(lifecycle,
            Invocation("discard", "rejects", Head(dismissals[d].toDiscard), d, error))
    /\ dismissals' = [dismissals EXCEPT ![d].pc = "done", ![d].status = "rejected",
                                        ![d].error = error]
    /\ UNCHANGED <<backstage, registry, stage, calls, events, settled, lookup>>

\* The value the promise of a discard rejects with, the value a discard throws
DiscardFailures == { Err("Error") }

DiscardExceptions == { Err("TypeError") }

Dismissals == 1..Len(dismissals)

\* The argument lists the test passes to whoCan before it dismisses the actor
DismissGifts ==
    { <<Instance(2)>>, <<Instance(6), Instance(7)>>, <<Instance(5)>> }

\* No promise of attemptsTo or dismiss is pending
Idle ==
    /\ \A c \in Chains : calls[c].status # "pending"
    /\ \A d \in Dismissals : dismissals[d].status # "pending"

\* The test grants abilities while no promise it awaits is pending
WhoCanInTurn(actor, given) ==
    /\ Idle
    /\ WhoCan(actor, given)

NextDismiss ==
    \/ \E given \in DismissGifts : WhoCanInTurn("Wendy", given)
    \/ Dismiss("Wendy")
    \/ \E d \in Dismissals : DiscardBegins(d)
    \/ \E d \in Dismissals, error \in DiscardExceptions : DiscardThrows(d, error)
    \/ \E d \in Dismissals : DiscardResolves(d)
    \/ \E d \in Dismissals, error \in DiscardFailures : DiscardRejects(d, error)

SpecDismiss == Init /\ [][NextDismiss]_vars

----------------------------------------------------------------------------
(* Properties of dismiss *)

\* The discard invocations of dismiss call d, in order: positions in the history
DiscardsOf(d) ==
    {k \in 1..Len(lifecycle) :
        /\ lifecycle[k].op = "discard" /\ lifecycle[k].chain = d
        /\ lifecycle[k].phase \in {"begins", "throws"}}

\* The settlements of the promises the discards of dismiss call d returned
DiscardsSettledOf(d) ==
    {k \in 1..Len(lifecycle) :
        /\ lifecycle[k].op = "discard" /\ lifecycle[k].chain = d
        /\ lifecycle[k].phase \in {"resolves", "rejects"}}

\* The failures of the discards of dismiss call d
DiscardsFailedOf(d) ==
    {k \in 1..Len(lifecycle) :
        /\ lifecycle[k].op = "discard" /\ lifecycle[k].chain = d
        /\ lifecycle[k].phase \in {"rejects", "throws"}}

RECURSIVE InOrder(_, _)
\* The entries of the history at the positions given, in order
InOrder(positions, log) ==
    IF positions = {} THEN <<>>
    ELSE LET k == CHOOSE p \in positions : \A q \in positions : p <= q
         IN  <<log[k]>> \o InOrder(positions \ {k}, log)

\* The abilities dismiss call d has invoked discard on, in the order of the invocations
Discarded(d) ==
    LET invocations == InOrder(DiscardsOf(d), lifecycle)
    IN  [i \in 1..Len(invocations) |-> invocations[i].ability]

\* The abilities with a discard operation the actor held when dismiss call d
\* was made, as a set
C14_Discardable(d) ==
    {ability \in Instances :
        /\ \E i \in 1..Len(dismissals[d].held) : dismissals[d].held[i].value = ability
        /\ HasMethod(ability, "discard")}

\* Those abilities in the order in which they were granted: each at its last grant
C14_InGrantOrder(d) ==
    LET g == dismissals[d].granted
        last == {k \in 1..Len(g) :
                    /\ g[k] \in C14_Discardable(d)
                    /\ \A j \in (k + 1)..Len(g) : g[j] # g[k]}
    IN  InOrder(last, g)

\* Those abilities in the order in which their families were first granted
C14_InFamilyOrder(d) ==
    LET g == dismissals[d].granted
        first == {k \in 1..Len(g) :
                    \A j \in 1..(k - 1) : C9_Family(g[j].type) # C9_Family(g[k].type)}
        families == InOrder(first, g)
        heldOf(family) == CHOOSE ability \in Instances :
                            \E i \in 1..Len(dismissals[d].held) :
                                /\ dismissals[d].held[i].value = ability
                                /\ C9_Family(ability.type) = family
        held == [i \in 1..Len(families) |-> heldOf(C9_Family(families[i].type))]
    IN  SelectSeq(held, LAMBDA ability : ability \in C14_Discardable(d))

\* C14, as claimed: a dismiss call that has settled has invoked discard once on
\* every ability held that has a discard operation, on no other ability, in the
\* order in which those abilities were granted.
C14_DiscardsAllInGrantOrder ==
    \A d \in Dismissals :
        dismissals[d].status # "pending" => Discarded(d) = C14_InGrantOrder(d)

\* C14, amended: dismiss invokes discard at most once on an ability, only on
\* abilities held that have a discard operation, in the order in which the
\* families of those abilities were first granted; a dismiss call that resolved
\* has discarded all of them, a call that was rejected none after the discard
\* that failed.
C14_DiscardsInFamilyOrder ==
    \A d \in Dismissals :
        LET expected == C14_InFamilyOrder(d)
            n == Len(Discarded(d))
        IN  /\ n <= Len(expected)
            /\ Discarded(d) = SubSeq(expected, 1, n)
            /\ dismissals[d].status = "resolved" => n = Len(expected)
            /\ dismissals[d].status = "rejected" =>
                    \E k \in DiscardsFailedOf(d) : lifecycle[k].ability = expected[n]

\* A dismiss call resolved for an actor holding an ability without discard and
\* two with it, the one granted last discarded first
C14_Witness ==
    \E d \in Dismissals :
        /\ dismissals[d].status = "resolved"
        /\ Discarded(d) = <<Instance(5), Instance(6)>>
        /\ C14_InGrantOrder(d) = <<Instance(6), Instance(5)>>
        /\ \E i \in 1..Len(dismissals[d].held) : dismissals[d].held[i].value = Instance(7)

\* C15: dismiss releases abilities one at a time: a discard of a dismiss call
\* is invoked only after the promise of every discard the call invoked before
\* has resolved, so at most one discard of the call is in progress.
C15_DiscardsSequentially ==
    \A d \in Dismissals :
        /\ \A k1, k2 \in DiscardsOf(d) :
                k1 < k2 => \E r \in DiscardsSettledOf(d) :
                            /\ k1 < r /\ r < k2
                            /\ lifecycle[r].phase = "resolves"
                            /\ lifecycle[r].ability = lifecycle[k1].ability
        /\ Cardinality({k \in DiscardsOf(d) : lifecycle[k].phase = "begins"})
                - Cardinality(DiscardsSettledOf(d)) <= 1

\* The second discard of a dismiss call is in progress
C15_Witness ==
    \E d \in Dismissals :
        /\ Len(Discarded(d)) = 2
        /\ dismissals[d].pc = "discarding"

\* C16: when a discard rejects or throws, the promise dismiss has returned is
\* rejected with the error of the first discard that failed; dismiss itself
\* returns that promise without having invoked a discard.
C16_RejectsWithFirstFailure ==
    /\ [](\A d \in Dismissals :
            DiscardsFailedOf(d) # {} =>
                LET first == CHOOSE k \in DiscardsFailedOf(d) :
                                \A j \in DiscardsFailedOf(d) : k <= j
                IN  /\ dismissals[d].status = "rejected"
                    /\ dismissals[d].error = lifecycle[first].error)
    /\ [][Len(dismissals') > Len(dismissals) => lifecycle' = lifecycle]_vars

\* The first discard of a dismiss call resolved, the second threw
C16_Witness ==
    \E d \in Dismissals :
        /\ Len(Discarded(d)) = 2
        /\ \E k \in DiscardsFailedOf(d) : lifecycle[k].phase = "throws"
        /\ dismissals[d].status = "rejected"

----------------------------------------------------------------------------
(* Granting fails closed: specification SpecGrant *)

\* The argument lists the test passes to whoCan: abilities, some of them to
\* initialise and to discard, and an object that does not extend Ability
GrantGifts ==
    { <<Instance(6), Instance(8), Instance(7)>>, <<Instance(8)>>, <<Instance(2)>>,
      <<Instance(7)>> }

\* The test gives the actor its abilities before it makes any other call
WhoCanFirst(actor, given) ==
    /\ calls = <<>> /\ dismissals = <<>>
    /\ WhoCan(actor, given)

\* The test awaits each promise before its next call
DismissInTurn(actor) ==
    /\ Idle
    /\ Dismiss(actor)

AttemptsToWhenIdle(actor, acts) ==
    /\ Idle
    /\ AttemptsTo(actor, acts)

NextGrant ==
    \/ \E given \in GrantGifts : WhoCanFirst("Wendy", given)
    \/ AttemptsToWhenIdle("Wendy", <<"Click", "Navigate">>)
    \/ \E c \in Chains : InitialiseBegins(c)
    \/ \E c \in Chains : InitialiseResolves(c)
    \/ \E c \in Chains, error \in { Err("Error") } : InitialiseRejects(c, error)
    \/ \E c \in Chains : WaitForNextCue(c)
    \/ \E c \in Chains : CueResolves(c)
    \/ \E c \in Chains : TrackedPerformAs(c)
    \/ \E c \in Chains : AnnounceStarts(c)
    \/ \E c \in Chains : PerformAs(c)
    \/ \E c \in Chains : ActivityResolves(c)
    \/ DismissInTurn("Wendy")
    \/ \E d \in Dismissals : DiscardBegins(d)
    \/ \E d \in Dismissals : DiscardResolves(d)
    \/ \E d \in Dismissals, error \in DiscardFailures : DiscardRejects(d, error)

SpecGrant == Init /\ [][NextGrant]_vars

\* C13: granting fails closed: whoCan with a value that is not an instance of
\* Ability throws a ConfigurationError and does not store the value, no
\* abilityTo returns such a value, and neither attemptsTo nor dismiss invokes
\* initialise or discard on it.
C13_FailsClosed ==
    /\ \A actor \in Actors :
        /\ \A given \in GrantGifts :
                (\E i \in 1..Len(given) : ~ IsAbility(given[i])) =>
                    LET result == whoCan(abilities[actor], given)
                    IN  /\ result.error.cls = "ConfigurationError"
                        /\ \A i \in 1..Len(result.map) : IsAbility(result.map[i].value)
        /\ \A i \in 1..Len(abilities[actor]) : IsAbility(abilities[actor][i].value)
        /\ \A abilityType \in AbilityTypes :
                LET result == abilityTo(abilities[actor], actor, abilityType)
                IN  result.found = None \/ IsAbility(result.found)
    /\ lastGrant # NoError => lastGrant.cls = "ConfigurationError"
    /\ \A k \in 1..Len(lifecycle) : IsAbility(lifecycle[k].ability)

\* whoCan(CallAnApi, a value that is not an Ability, TakeNotes) has thrown, the
\* actor holds the CallAnApi only, and has since initialised and discarded it
C13_Witness ==
    /\ lastGrant.cls = "ConfigurationError"
    /\ granted["Wendy"] = <<Instance(6)>>
    /\ MapValues(abilities["Wendy"]) = <<Instance(6)>>
    /\ \E k \in 1..Len(lifecycle) :
            lifecycle[k].op = "initialise" /\ lifecycle[k].phase = "resolves"
    /\ \E k \in 1..Len(lifecycle) :
            lifecycle[k].op = "discard" /\ lifecycle[k].phase = "resolves"

----------------------------------------------------------------------------
(* Initialising abilities, waiting for the cue: specification SpecInitialise *)

\* The argument lists the test passes to whoCan: three abilities to
\* initialise, an ability without isInitialised, an ability without either
InitialiseGifts ==
    { <<Instance(6), Instance(2), Instance(7)>>, <<Instance(4)>>, <<Instance(1), Instance(7)>> }

InitialiseScripts == { <<"Click", "Navigate">>, <<"Click">> }

\* The values an initialise fails with
InitialiseFailures == { Err("Error") }

NextInitialise ==
    \/ \E given \in InitialiseGifts : WhoCanFirst("Wendy", given)
    \/ \E acts \in InitialiseScripts : AttemptsToWhenIdle("Wendy", acts)
    \/ \E c \in Chains : InitialiseBegins(c)
    \/ \E c \in Chains : InitialiseResolves(c)
    \/ \E c \in Chains, error \in InitialiseFailures : InitialiseRejects(c, error)
    \/ \E c \in Chains : WaitForNextCue(c)
    \/ \E c \in Chains : CueResolves(c)
    \/ \E c \in Chains : TrackedPerformAs(c)
    \/ \E c \in Chains : AnnounceStarts(c)
    \/ \E c \in Chains : PerformAs(c)
    \/ \E c \in Chains : ActivityResolves(c)
    \/ \E c \in Chains, error \in { Err("AssertionError") } : ActivityRejects(c, error)

SpecInitialise == Init /\ [][NextInitialise]_vars

\* The initialise invocations of attemptsTo call c: positions in the history
InitialisesOf(c) ==
    {k \in 1..Len(lifecycle) :
        /\ lifecycle[k].op = "initialise" /\ lifecycle[k].chain = c
        /\ lifecycle[k].phase = "begins"}

\* The initialise invocations of attemptsTo call c that have resolved, have rejected
InitialisesResolvedOf(c) ==
    {k \in 1..Len(lifecycle) :
        /\ lifecycle[k].op = "initialise" /\ lifecycle[k].chain = c
        /\ lifecycle[k].phase = "resolves"}

InitialisesRejectedOf(c) ==
    {k \in 1..Len(lifecycle) :
        /\ lifecycle[k].op = "initialise" /\ lifecycle[k].chain = c
        /\ lifecycle[k].phase = "rejects"}

\* The abilities attemptsTo call c has invoked initialise on, in the order of the invocations
Initialised(c) ==
    LET invocations == InOrder(InitialisesOf(c), lifecycle)
    IN  [i \in 1..Len(invocations) |-> invocations[i].ability]

\* The abilities held when attemptsTo call c was made that have both operations
\* and whose isInitialised() returned false
C17_ToInitialise(c) ==
    SelectSeq(MapValues(calls[c].held),
              LAMBDA ability : /\ HasMethod(ability, "initialise")
                               /\ HasMethod(ability, "isInitialised")
                               /\ ability.id \notin calls[c].wasInitialised)

\* Every ability attemptsTo call c had to initialise was initialised
C17_AllInitialised(c) ==
    /\ Initialised(c) = C17_ToInitialise(c)
    /\ Cardinality(InitialisesResolvedOf(c)) = Len(C17_ToInitialise(c))

\* attemptsTo call c has gone on to its activities
C17_PastInitialisation(c) ==
    \/ calls[c].cues > 0
    \/ calls[c].invoked # {}
    \/ \E k \in 1..Len(events) : events[k].call = c
    \/ calls[c].status = "resolved"

\* C17: ability initialisation precedes all activities: an attemptsTo call
\* invokes initialise only on the abilities held that have initialise and
\* isInitialised and reported not to be initialised, once each, one at a time,
\* each awaited before the next, and all of them before its first cue wait
\* and its first activity.
C17_InitialisedBeforeActivities ==
    \A c \in Chains :
        LET n == Len(Initialised(c))
        IN  /\ n <= Len(C17_ToInitialise(c))
            /\ Initialised(c) = SubSeq(C17_ToInitialise(c), 1, n)
            /\ \A k1, k2 \in InitialisesOf(c) :
                    k1 < k2 => \E r \in InitialisesResolvedOf(c) :
                                /\ k1 < r /\ r < k2
                                /\ lifecycle[r].ability = lifecycle[k1].ability
            /\ Cardinality(InitialisesOf(c))
                    - Cardinality(InitialisesResolvedOf(c) \cup InitialisesRejectedOf(c)) <= 1
            /\ C17_PastInitialisation(c) => C17_AllInitialised(c)

\* A call has initialised two abilities of an actor also holding an ability
\* without isInitialised, and gone on to its activities; a later call, finding
\* the two initialised, has initialised none and gone on to its activities
C17_Witness ==
    \E c1, c2 \in Chains :
        /\ c1 < c2
        /\ Initialised(c1) = <<Instance(6), Instance(7)>>
        /\ \E i \in 1..Len(calls[c1].held) : calls[c1].held[i].value = Instance(4)
        /\ calls[c1].status = "resolved"
        /\ Initialised(c2) = <<>>
        /\ calls[c2].wasInitialised = {6, 7}
        /\ calls[c2].cues > 0

\* C18, as claimed: when initialise of an ability fails with an error, whatever
\* the place of the ability among those to initialise, the attemptsTo call is
\* rejected with a TestCompromisedError whose message names the actor and the
\* type of that ability and whose cause is that error.
C18_WrapsTheFailure ==
    \A c \in Chains : \A k \in InitialisesRejectedOf(c) :
        /\ calls[c].status = "rejected"
        /\ calls[c].error.cls = "TestCompromisedError"
        /\ calls[c].error.about =
                calls[c].actor \o " couldn't initialise the ability to "
                               \o lifecycle[k].ability.type
        /\ calls[c].error.cause = <<lifecycle[k].error>>

\* The activities of attemptsTo call c announced to start, to finish
C19_Started(c) == {i \in 1..Len(calls[c].acts) : StartsOf(c, i) # {}}

C19_Finished(c) == {i \in 1..Len(calls[c].acts) : FinishedOf(c, i) # {}}

\* C19: the cue-wait barrier: an attemptsTo call invokes waitForNextCue once
\* for each of its activities, the first included, after the initialisation of
\* the abilities (for the first) or the activity before it has finished, and
\* announces that the activity starts, and performs it, only after that cue
\* wait has resolved.
C19_CueBarrier ==
    \A c \in Chains :
        /\ calls[c].cued <= calls[c].cues
        /\ calls[c].cues <= Cardinality(C19_Finished(c)) + 1
        /\ Cardinality(C19_Started(c)) <= calls[c].cued
        /\ calls[c].cues > 0 => C17_AllInitialised(c)
        /\ \A i \in 1..Len(calls[c].acts) :
            /\ (i > 1 /\ calls[c].cues >= i) => FinishedOf(c, i - 1) # {}
            /\ (i \in C19_Started(c) \/ i \in calls[c].invoked) => calls[c].cued >= i
            /\ i \in C19_Finished(c) => calls[c].cues >= i
        /\ calls[c].status = "resolved" => calls[c].cues = Len(calls[c].acts)

\* A call has initialised an ability, then waited for the cue before each of
\* its two activities, and resolved
C19_Witness ==
    \E c \in Chains :
        /\ Len(Initialised(c)) >= 1
        /\ calls[c].status = "resolved"
        /\ Len(calls[c].acts) = 2
        /\ calls[c].cues = 2 /\ calls[c].cued = 2

----------------------------------------------------------------------------
(* Activity ids: specification SpecActivityIds *)

\* The attemptsTo calls the test makes: an activity twice in one call, the same
\* activity in another call, and in the call a Task makes
ActivityIdScripts ==
    { [actor |-> "Wendy", acts |-> <<"Click", "Click">>],
      [actor |-> "Wendy", acts |-> <<"Click">>],
      [actor |-> "Mocha", acts |-> <<"LogIn">>] }

NextActivityIds ==
    \/ \E script \in ActivityIdScripts : AttemptsTo(script.actor, script.acts)
    \/ \E c \in Chains : WaitForNextCue(c)
    \/ \E c \in Chains : CueResolves(c)
    \/ \E c \in Chains : TrackedPerformAs(c)
    \/ \E c \in Chains : AnnounceStarts(c)
    \/ \E c \in Chains : PerformAs(c)
    \/ \E c \in Chains : ActivityResolves(c)
    \/ \E c \in Chains, error \in { Err("AssertionError") } : ActivityRejects(c, error)
    \/ \E c \in Chains : SubActivitiesSettled(c)

SpecActivityIds == Init /\ [][NextActivityIds]_vars

\* C20: every invocation of an activity gets an activity id of its own: two
\* events with the same activity id are the Starts and the Finished event of
\* one invocation, also when the same activity is performed twice, in one
\* attemptsTo call or in two.
C20_FreshActivityIds ==
    /\ \A k1, k2 \in 1..Len(events) :
            events[k1].activityId = events[k2].activityId =>
                /\ events[k1].call = events[k2].call
                /\ events[k1].idx = events[k2].idx
    /\ \A c \in Chains : \A i \in 1..Len(calls[c].acts) :
            /\ Cardinality(StartsOf(c, i)) <= 1
            /\ Cardinality(FinishedOf(c, i)) <= 1
            /\ \A k \in FinishedOf(c, i) : \E j \in StartsOf(c, i) : j < k

\* One activity was performed twice in one call and once more in another call
\* on the same actor, and all three invocations have finished
C20_Witness ==
    \E c1, c2 \in Chains :
        /\ c1 # c2
        /\ calls[c1].actor = calls[c2].actor
        /\ calls[c1].acts = <<"Click", "Click">> /\ calls[c2].acts = <<"Click">>
        /\ FinishedOf(c1, 1) # {} /\ FinishedOf(c1, 2) # {} /\ FinishedOf(c2, 1) # {}
        /\ \A k1 \in FinishedOf(c1, 1), k2 \in FinishedOf(c1, 2), k3 \in FinishedOf(c2, 1) :
                /\ events[k1].name = events[k2].name
                /\ events[k2].name = events[k3].name

----------------------------------------------------------------------------
(* The pair of events of an invocation *)

\* The activity an event of the stream is about
C21_ActivityOf(event) == calls[event.call].acts[event.idx]

\* The family an event type belongs to
C21_PairOf(type) ==
    CASE type \in {"InteractionStarts", "InteractionFinished"} -> "Interaction"
      [] type \in {"TaskStarts", "TaskFinished"}               -> "Task"
      [] OTHER                                                 -> "other"

\* C21: the events of an invocation come from one pair, chosen by the variant
\* of the activity: InteractionStarts and InteractionFinished for an
\* Interaction, TaskStarts and TaskFinished for any other Activity; the Starts
\* and the Finished event of an invocation are never of different pairs,
\* whether the activity succeeded or failed.
C21_OnePairPerInvocation ==
    /\ \A k \in 1..Len(events) :
            C21_PairOf(events[k].type) =
                IF IsInteraction(C21_ActivityOf(events[k])) THEN "Interaction" ELSE "Task"
    /\ \A c \in Chains : \A i \in 1..Len(calls[c].acts) :
            \A j \in StartsOf(c, i), k \in FinishedOf(c, i) :
                C21_PairOf(events[j].type) = C21_PairOf(events[k].type)

\* An Interaction has failed inside a Task, the Task has failed with it, and
\* another Interaction has succeeded
C21_Witness ==
    \E j, k, l \in 1..Len(events) :
        /\ events[j].type = "InteractionFinished"
        /\ events[j].outcome.variant = "ExecutionFailedWithAssertionError"
        /\ events[k].type = "TaskFinished"
        /\ events[k].outcome.variant = "ExecutionFailedWithAssertionError"
        /\ events[l].type = "InteractionFinished"
        /\ events[l].outcome = ExecutionSuccessful

----------------------------------------------------------------------------
(* The name an activity is announced under *)

RECURSIVE C22_ReplaceEvery(_, _, _, _)
\* template with every occurrence of pattern, from position i on, replaced
C22_ReplaceEvery(template, pattern, replacement, i) ==
    IF i + Len(pattern) - 1 > Len(template) THEN template
    ELSE IF SubSeq(template, i, i + Len(pattern) - 1) = pattern
        THEN C22_ReplaceEvery(SubSeq(template, 1, i - 1) \o replacement
                                \o SubSeq(template, i + Len(pattern), Len(template)),
                              pattern, replacement, i + Len(replacement))
    ELSE C22_ReplaceEvery(template, pattern, replacement, i + 1)

\* The template of an activity: its own description, or the default one when
\* it has none
C22_Template(activity) ==
    IF toString(activity) = "[object Object]"
        THEN "#actor performs " \o activity
        ELSE toString(activity)

\* C22: the name announced for an activity is its template with #actor
\* replaced by the name of the actor wherever it occurs in the template.
C22_ActorNamedWhereverItOccurs ==
    \A k \in 1..Len(events) :
        events[k].name =
            C22_ReplaceEvery(C22_Template(C21_ActivityOf(events[k])), "#actor",
                             calls[events[k].call].actor, 1)

----------------------------------------------------------------------------
(* Actor.collect *)

\* The name argument of collect: a string, a Name, or left out
Undefined == [kind |-> "undefined", value |-> ""]

String(value) == [kind |-> "string", value |-> value]

Name(value) == [kind |-> "Name", value |-> value]

\* The || of JavaScript: the right operand when the left one is undefined or
\* the empty string (an object, a Name among them, is never falsy)
OrElse(left, right) ==
    IF left.kind = "undefined" \/ (left.kind = "string" /\ left.value = "")
        THEN right
        ELSE left

\* Actor.nameFrom
nameFrom(maybeName) ==
    IF maybeName.kind = "string" THEN Name(maybeName.value) ELSE maybeName

\* The artifacts the activities collect, by the name of their constructor
Artifacts == {"Photo", "TextData"}

\* The event Actor.collect builds
ActivityRelatedArtifactGenerated(sceneId, activityId, name, artifact, call, idx) ==
    [type       |-> "ActivityRelatedArtifactGenerated",
     sceneId    |-> sceneId,
     activityId |-> activityId,
     name       |-> name.value,
     artifact   |-> artifact,
     outcome    |-> NoOutcome,
     call       |-> call,
     idx        |-> idx]

\* One Actor.collect call: who made it, with what, the ids the Stage held
\* when it was made, how many events had been announced, whether it threw
Collection(c, artifact, name) ==
    [call       |-> c,
     idx        |-> calls[c].idx,
     artifact   |-> artifact,
     name       |-> name,
     sceneId    |-> currentScene,
     activityId |-> currentActivity,
     announced  |-> Len(events),
     threw      |-> currentScene = 0 \/ currentActivity = 0]

\* Actor.collect where the name of the type is used whatever name is given
CollectUnderTypeName(c, artifact, name) ==
    /\ Len(collections) < MaxCollects
    /\ \/ calls[c].pc = "running"
       \/ calls[c].pc = "awaiting" /\ calls[calls[c].child].status = "resolved"
    /\ collections' = Append(collections, Collection(c, artifact, name))
    /\ IF currentScene = 0 \/ currentActivity = 0
         THEN UNCHANGED <<events, crew>>
         ELSE Announce(ActivityRelatedArtifactGenerated(currentScene, currentActivity,
                    nameFrom(Name(artifact)), artifact, c, calls[c].idx))
    /\ UNCHANGED <<annex, registry, upkeep, stage, calls, settled, answers>>

\* Actor.collect, called by the activity chain c is performing: by an
\* Interaction at work, or by a Task once its sub-activities are done.
\* stage.currentSceneId() and stage.currentActivityId() throw when there is
\* none, before anything is announced
Collect(c, artifact, name) ==
    /\ Len(collections) < MaxCollects
    /\ \/ calls[c].pc = "running"
       \/ calls[c].pc = "awaiting" /\ calls[calls[c].child].status = "resolved"
    /\ collections' = Append(collections, Collection(c, artifact, name))
    /\ IF currentScene = 0 \/ currentActivity = 0
         THEN UNCHANGED <<events, crew>>
         ELSE Announce(ActivityRelatedArtifactGenerated(currentScene, currentActivity,
                    nameFrom(OrElse(name, Name(artifact))), artifact, c, calls[c].idx))
    /\ UNCHANGED <<annex, registry, upkeep, stage, calls, settled, answers>>

CollectScripts ==
    { [actor |-> "Wendy", acts |-> <<"LogIn">>],
      [actor |-> "Wendy", acts |-> <<"Click">>] }

\* What the activities collect, and under what name
CollectInputs ==
    { <<"Photo", Undefined>>, <<"Photo", String("")>>,
      <<"TextData", String("page source")>>, <<"Photo", Name("screenshot")>> }

NextCollect ==
    \/ SceneFinished
    \/ \E script \in CollectScripts : AttemptsToWhenIdle(script.actor, script.acts)
    \/ \E c \in Chains : WaitForNextCue(c)
    \/ \E c \in Chains : CueResolves(c)
    \/ \E c \in Chains : TrackedPerformAs(c)
    \/ \E c \in Chains : AnnounceStarts(c)
    \/ \E c \in Chains : PerformAs(c)
    \/ \E c \in Chains, input \in CollectInputs : Collect(c, input[1], input[2])
    \/ \E c \in Chains : ActivityResolves(c)
    \/ \E c \in Chains, error \in { Err("AssertionError") } : ActivityRejects(c, error)
    \/ \E c \in Chains : SubActivitiesSettled(c)

SpecCollect == Init /\ [][NextCollect]_vars

\* Where in the stream the artifacts were announced
Generated == {k \in 1..Len(events) : events[k].type = "ActivityRelatedArtifactGenerated"}

\* The collect calls that returned
Collected == {n \in 1..Len(collections) : ~ collections[n].threw}

----------------------------------------------------------------------------
(* Actor.answer *)

\* How a promise settles: resolved with a value, or rejected with an error
Resolved(value) == [status |-> "resolved", value |-> value, error |-> NoError]

Rejected(error) == [status |-> "rejected", value |-> 0, error |-> error]

\* A value handed to answer: what it is, whether it has a property `then` of
\* its own or from its prototype and whether that is a function, what its
\* answeredBy returns (0 when it has no answeredBy), how it settles when it is
\* a promise or a thenable
Answerable(kind, ownThen, protoThen, callable, answeredBy, settles) ==
    [kind |-> kind, ownThen |-> ownThen, protoThen |-> protoThen, callable |-> callable,
     answeredBy |-> answeredBy, settles |-> settles]

Plain(kind) == Answerable(kind, FALSE, FALSE, FALSE, 0, Resolved(0))

\* The answerables of the tests, by identity
Answerables ==
    <<Plain("undefined"),
      Plain("null"),
      Plain("number"),
      \* 4, 5: promises made by Promise.resolve and Promise.reject: `then` comes
      \* from Promise.prototype
      Answerable("Promise", FALSE, TRUE, TRUE, 0, Resolved(3)),
      Answerable("Promise", FALSE, TRUE, TRUE, 0, Rejected(Err("Error"))),
      \* 6: a promise of another library, with a method `then` of its own
      Answerable("thenable", TRUE, FALSE, TRUE, 0, Resolved(3)),
      \* 7: a plain object with a field called `then`
      Answerable("object", TRUE, FALSE, FALSE, 0, Resolved(0)),
      \* 8..13: Questions, whose answeredBy returns 3, 8, 4, 6, 1, 5
      Answerable("Question", FALSE, FALSE, FALSE, 3, Resolved(0)),
      Answerable("Question", FALSE, FALSE, FALSE, 8, Resolved(0)),
      Answerable("Question", FALSE, FALSE, FALSE, 4, Resolved(0)),
      Answerable("Question", FALSE, FALSE, FALSE, 6, Resolved(0)),
      Answerable("Question", FALSE, FALSE, FALSE, 1, Resolved(0)),
      Answerable("Question", FALSE, FALSE, FALSE, 5, Resolved(0))>>

\* answer: isDefined
isDefined(v) == ~ (Answerables[v].kind = "undefined" \/ Answerables[v].kind = "null")

\* answer: isAPromise, Object.prototype.hasOwnProperty.call(v, 'then')
isAPromise(v) == Answerables[v].ownThen

\* Question.isAQuestion: the value exposes answeredBy
isAQuestion(v) == Answerables[v].answeredBy # 0

\* What answer returns: the value it was given (same # 0) or a promise made
\* by Promise.resolve(of); the methods invoked on the way
Returned(same, of, invoked) == [same |-> same, of |-> of, invoked |-> invoked]

\* Promise.resolve(v): v when it is a Promise already, else a new promise
PromiseResolve(v, invoked) ==
    IF Answerables[v].kind = "Promise" THEN Returned(v, 0, invoked)
                                       ELSE Returned(0, v, invoked)

\* Actor.answer with the test for a Question left out
answerAsAValue(actor, answerable, invoked) ==
    IF isDefined(answerable) /\ isAPromise(answerable)
        THEN Returned(answerable, 0, invoked)
    ELSE PromiseResolve(answerable, invoked)

\* Actor.answer
RECURSIVE answer(_, _, _)
answer(actor, answerable, invoked) ==
    IF isDefined(answerable) /\ isAPromise(answerable)
        THEN Returned(answerable, 0, invoked)
    ELSE IF isDefined(answerable) /\ isAQuestion(answerable)
        THEN answer(actor, Answerables[answerable].answeredBy,
                    Append(invoked, <<answerable, "answeredBy", actor>>))
    ELSE PromiseResolve(answerable, invoked)

\* v has a method `then`: awaiting it, or resolving a promise with it, calls
\* that method and follows it
IsThenable(v) ==
    /\ isDefined(v)
    /\ Answerables[v].ownThen \/ Answerables[v].protoThen
    /\ Answerables[v].callable

\* What the test gets by awaiting what answer returned, and what that invokes
Await(returned) ==
    LET v == IF returned.same # 0 THEN returned.same ELSE returned.of
    IN  IF IsThenable(v)
            THEN [settles |-> Answerables[v].settles,
                  invoked |-> Append(returned.invoked, <<v, "then", "">>)]
            ELSE [settles |-> Resolved(v), invoked |-> returned.invoked]

\* The test awaits actor.answer(answerable)
Answer(actor, answerable) ==
    /\ Len(answers) < MaxAnswers
    /\ answers' = Append(answers, [actor    |-> actor,
                                   asked    |-> answerable,
                                   returned |-> answer(actor, answerable, <<>>),
                                   awaited  |-> Await(answer(actor, answerable, <<>>))])
    /\ UNCHANGED <<annex, registry, upkeep, stage, calls, events, settled, collections, crew>>

NextAnswer ==
    \E actor \in Actors, answerable \in DOMAIN Answerables : Answer(actor, answerable)

SpecAnswer == Init /\ [][NextAnswer]_vars

\* The kinds of answerable the claim tells apart
C24_IsPromise(v) == Answerables[v].kind \in {"Promise", "thenable"}

C24_IsQuestion(v) == Answerables[v].kind = "Question"

RECURSIVE C24_Result(_)
\* The result the three-way dispatch gives for v
C24_Result(v) ==
    IF C24_IsPromise(v) THEN Answerables[v].settles
    ELSE IF C24_IsQuestion(v) THEN C24_Result(Answerables[v].answeredBy)
    ELSE Resolved(v)

RECURSIVE C24_Asked(_, _)
\* The Questions asked on the way, each with the actor as its context
C24_Asked(actor, v) ==
    IF C24_IsPromise(v) \/ ~ C24_IsQuestion(v) THEN <<>>
    ELSE <<<<v, "answeredBy", actor>>>> \o C24_Asked(actor, Answerables[v].answeredBy)

\* C24: awaiting answer(x) gives: for a promise, the result of that promise; for
\* a Question, the recursively answered result of x.answeredBy(actor), also
\* when that is another Question or a promise; for any other value, null and
\* undefined among them, x itself, with nothing invoked on x. answeredBy is
\* invoked once on each Question of the way, with the answering actor, and on
\* nothing else.
C24_ThreeWayDispatch ==
    \A n \in 1..Len(answers) :
        LET a == answers[n]
        IN  /\ a.awaited.settles = C24_Result(a.asked)
            /\ a.returned.invoked = C24_Asked(a.actor, a.asked)
            /\ ~ C24_IsPromise(a.asked) /\ ~ C24_IsQuestion(a.asked) =>
                    /\ a.awaited.settles = Resolved(a.asked)
                    /\ a.awaited.invoked = <<>>

\* A Question whose answeredBy returns a Question was answered, and undefined
C24_Witness ==
    \E m, n \in 1..Len(answers) :
        /\ answers[m].asked = 9
        /\ answers[m].awaited.settles = Resolved(3)
        /\ answers[n].asked = 1
        /\ answers[n].awaited.settles = Resolved(1)

\* The id under which activity number i of chain c was announced to start
C25_IdOf(c, i) == {events[k].activityId : k \in StartsOf(c, i)}

\* The tracker keeps the id it was given: a Finished event carries the id of
\* the Starts event of its invocation, whatever was performed in between
C25_FinishedCarriesOwnId ==
    \A c \in Chains : \A i \in 1..Len(calls[c].acts) :
        \A k \in FinishedOf(c, i) : events[k].activityId \in C25_IdOf(c, i)

----------------------------------------------------------------------------
(* A tracked activity with no scene active *)

\* Chain c was rejected by the tracker of its activity number idx, which
\* found no scene active
C27_NoScene(c) ==
    /\ calls[c].status = "rejected"
    /\ calls[c].error = Err("LogicError")
    /\ calls[c].cur = NotTracked
    /\ calls[c].idx >= 1

\* The tracker of chain c takes its step while no scene is active
C27_TracksWithoutScene(c) ==
    /\ c \in Chains
    /\ calls[c].pc = "track"
    /\ currentScene = 0
    /\ calls'[c] # calls[c]

\* C27: performing a tracked activity when no scene is active fails before
\* anything else is done: no activity id is assigned, no Starts and no
\* Finished event is announced for the activity, the performAs of the wrapped
\* activity is not invoked, and the attemptsTo call is rejected.
C27_FailsWithoutScene ==
    /\ [](\A c \in Chains : C27_NoScene(c) =>
            /\ StartsOf(c, calls[c].idx) = {}
            /\ FinishedOf(c, calls[c].idx) = {}
            /\ calls[c].idx \notin calls[c].invoked
            /\ SettledOf(c, calls[c].idx) = {})
    /\ [][\A c \in DOMAIN calls : C27_TracksWithoutScene(c) =>
            /\ calls'[c].status = "rejected"
            /\ nextId' = nextId
            /\ currentActivity' = currentActivity
            /\ events' = events]_vars

\* The scene ended while a call was waiting for its cue, and the tracker of
\* its second activity found no scene
C27_Witness ==
    \E c \in Chains :
        /\ C27_NoScene(c)
        /\ calls[c].idx = 2
        /\ FinishedOf(c, 1) # {}

----------------------------------------------------------------------------
(* The crew *)

\* The test assigns a crew member to the Stage, before the actors perform
Assign(member) ==
    /\ calls = <<>>
    /\ member \notin Assigned(crew)
    /\ Len(crew) < MaxCrew
    /\ crew' = assign(crew, member, Len(events))
    /\ UNCHANGED <<annex, registry, upkeep, stage, calls, events, settled, desk>>

\* The timestamps of the tests, as given to Timestamp.fromJSON
Timestamps == {"2021-01-13T18:00:00Z", "2021-01-13T18:00:00.250Z"}

TestRunFinished(timestamp) ==
    [type       |-> "TestRunFinished",
     sceneId    |-> 0,
     activityId |-> 0,
     name       |-> "",
     outcome    |-> NoOutcome,
     call       |-> 0,
     idx        |-> 0,
     timestamp  |-> timestamp]

\* The test announces that the test run has finished
AnnounceTestRunFinished(v) ==
    /\ Idle
    /\ \A k \in 1..Len(events) : events[k].type # "TestRunFinished"
    /\ Announce(TestRunFinished(TimestampFromJSON(v)))
    /\ UNCHANGED <<annex, registry, upkeep, stage, calls, settled, desk>>

CrewScripts == { <<"Click">> }

NextCrew ==
    \/ \E member \in CrewMembers : Assign(member)
    \/ \E v \in Timestamps : AnnounceTestRunFinished(v)
    \/ \E acts \in CrewScripts : AttemptsToWhenIdle("Wendy", acts)
    \/ \E c \in Chains : WaitForNextCue(c)
    \/ \E c \in Chains : CueResolves(c)
    \/ \E c \in Chains : TrackedPerformAs(c)
    \/ \E c \in Chains : AnnounceStarts(c)
    \/ \E c \in Chains : PerformAs(c)
    \/ \E c \in Chains : ActivityResolves(c)
    \/ \E c \in Chains, error \in { Err("AssertionError") } : ActivityRejects(c, error)

SpecCrew == Init /\ [][NextCrew]_vars

Crew == DOMAIN crew

\* Where in the stream the event is that member m received as its n-th
PositionOf(m, n) == crew[m].since + n

----------------------------------------------------------------------------
(* attemptsTo calls that overlap *)

\* The test gives Wendy abilities, then calls attemptsTo without waiting for
\* the promise of an earlier call
OverlapGifts == { <<Instance(6)>>, <<Instance(6), Instance(7)>> }

NextOverlap ==
    \/ \E given \in OverlapGifts : WhoCanFirst("Wendy", given)
    \/ AttemptsTo("Wendy", <<"Click">>)
    \/ \E c \in Chains : InitialiseBegins(c)
    \/ \E c \in Chains : InitialiseResolves(c)
    \/ \E c \in Chains : WaitForNextCue(c)
    \/ \E c \in Chains : CueResolves(c)
    \/ \E c \in Chains : TrackedPerformAs(c)
    \/ \E c \in Chains : AnnounceStarts(c)
    \/ \E c \in Chains : PerformAs(c)
    \/ \E c \in Chains : ActivityResolves(c)

SpecOverlap == Init /\ [][NextOverlap]_vars

\* The invocations of initialise on the ability with this id
C30_InitialisesOn(id) ==
    {k \in 1..Len(lifecycle) :
        /\ lifecycle[k].op = "initialise"
        /\ lifecycle[k].phase = "begins"
        /\ lifecycle[k].ability.id = id}

\* C30: initialise is invoked at most once on an ability that reports to be
\* initialised from the moment its initialise has resolved, over any sequence
\* of attemptsTo calls, calls made before the initialisation of an earlier
\* call has completed among them.
C30_InitialisedAtMostOnce ==
    \A ability \in Instances : Cardinality(C30_InitialisesOn(ability.id)) <= 1

----------------------------------------------------------------------------
(* Failures of the steps before an activity *)

NextPrelude ==
    \/ \E given \in InitialiseGifts : WhoCanFirst("Wendy", given)
    \/ \E acts \in InitialiseScripts : AttemptsToWhenIdle("Wendy", acts)
    \/ \E c \in Chains : InitialiseBegins(c)
    \/ \E c \in Chains : InitialiseResolves(c)
    \/ \E c \in Chains, error \in InitialiseFailures : InitialiseRejects(c, error)
    \/ \E c \in Chains : WaitForNextCue(c)
    \/ \E c \in Chains : CueResolves(c)
    \/ \E c \in Chains : CueRejects(c)
    \/ \E c \in Chains : TrackedPerformAs(c)
    \/ \E c \in Chains : AnnounceStarts(c)
    \/ \E c \in Chains : PerformAs(c)
    \/ \E c \in Chains : ActivityResolves(c)

SpecPrelude == Init /\ [][NextPrelude]_vars

RECURSIVE C31_RootCause(_)
\* The error at the bottom of the causes of an error
C31_RootCause(error) ==
    IF error.cause = <<>> THEN error ELSE C31_RootCause(error.cause[1])

\* The cue wait attemptsTo call c made last has rejected
C31_CueFailed(c) ==
    /\ calls[c].pc = "done"
    /\ calls[c].cues > calls[c].cued

\* The events announced for the activities of call c from number i on
C31_EventsFrom(c, i) ==
    {k \in 1..Len(events) : events[k].call = c /\ events[k].idx >= i}

\* C31: a failure of a step before an activity stops the chain without
\* activity events. When an initialise fails, no later ability is initialised,
\* no cue is awaited, no activity is performed or announced, and the call is
\* rejected with the error initialiseAbilities rejects with, a
\* TestCompromisedError caused by the failure. When the cue wait before
\* activity i fails, neither i nor a later activity is performed or announced,
\* no further cue is awaited, and the call is rejected with the error of the
\* cue wait.
C31_PreludeFailureStopsTheChain ==
    \A c \in Chains :
        /\ \A r \in InitialisesRejectedOf(c) :
                /\ calls[c].status = "rejected"
                /\ calls[c].error.cls = "TestCompromisedError"
                /\ C31_RootCause(calls[c].error) = lifecycle[r].error
                /\ \A k \in InitialisesOf(c) : k < r
                /\ calls[c].cues = 0
                /\ calls[c].invoked = {}
                /\ C31_EventsFrom(c, 1) = {}
        /\ C31_CueFailed(c) =>
                /\ calls[c].status = "rejected"
                /\ calls[c].error = Err("TimeoutExpiredError")
                /\ calls[c].cues = calls[c].idx
                /\ \A i \in calls[c].idx..Len(calls[c].acts) : i \notin calls[c].invoked
                /\ C31_EventsFrom(c, calls[c].idx) = {}

\* The initialisation of one call failed on the first of several abilities;
\* in another call the cue wait before the second activity failed after the
\* first activity had finished
C31_Witness ==
    \E c1, c2 \in Chains :
        /\ InitialisesRejectedOf(c1) # {}
        /\ Len(C17_ToInitialise(c1)) >= 2
        /\ Cardinality(InitialisesOf(c1)) = 1
        /\ C31_CueFailed(c2)
        /\ calls[c2].idx = 2
        /\ FinishedOf(c2, 1) # {}

----------------------------------------------------------------------------
(* An announcement that fails *)

\* What the callback that announces the Starts event throws
AnnounceFailures == { Err("Error"), Err("AssertionError") }

NoAbility == [id |-> 0, type |-> "none"]

\* TrackedActivity.performAs: the callback that announces the Starts event
\* throws; the event may have joined the stream before it did. The .then
\* callbacks behind it are skipped
AnnounceStartsThrows(c, error, announced) ==
    /\ calls[c].pc = "starts"
    /\ IF announced
         THEN Announce(ActivityEvent(activityStarts(Activity(c)), calls[c].cur,
                                     NoOutcome, c, calls[c].idx))
         ELSE UNCHANGED <<events, crew>>
    /\ calls' = [calls EXCEPT ![c].pc = "caught", ![c].error = error]
    /\ lifecycle' = Append(lifecycle, Invocation("announce", "throws", NoAbility, c, error))
    /\ UNCHANGED <<annex, desk, registry, stage, settled, lookup, dismissals>>

\* StartsCaught that rethrows without announcing that the activity finished
StartsCaughtWithoutFinished(c) ==
    /\ calls[c].pc = "caught"
    /\ calls' = [calls EXCEPT ![c] = Reject(@, calls[c].error)]
    /\ UNCHANGED <<backstage, registry, upkeep, stage, events, settled>>

\* TrackedActivity.performAs: the .catch callback, run for a failure of the
\* announcement
StartsCaught(c) ==
    /\ calls[c].pc = "caught"
    /\ Failed(c, calls[c].error)
    /\ UNCHANGED <<annex, desk, registry, upkeep, stage, settled>>

AnnounceScripts ==
    { [actor |-> "Wendy", acts |-> <<"Click", "Navigate">>],
      [actor |-> "Wendy", acts |-> <<"Click">>],
      [actor |-> "Mocha", acts |-> <<"LogIn">>] }

NextAnnounce ==
    \/ \E script \in AnnounceScripts : AttemptsToWhenIdle(script.actor, script.acts)
    \/ \E c \in Chains : WaitForNextCue(c)
    \/ \E c \in Chains : CueResolves(c)
    \/ \E c \in Chains : TrackedPerformAs(c)
    \/ \E c \in Chains : AnnounceStarts(c)
    \/ \E c \in Chains, error \in AnnounceFailures, announced \in BOOLEAN :
            AnnounceStartsThrows(c, error, announced)
    \/ \E c \in Chains : StartsCaught(c)
    \/ \E c \in Chains : PerformAs(c)
    \/ \E c \in Chains : ActivityResolves(c)
    \/ \E c \in Chains : SubActivitiesSettled(c)

SpecAnnounce == Init /\ [][NextAnnounce]_vars

\* The announcements of a Starts event that failed
C32_Thrown ==
    {k \in 1..Len(lifecycle) :
        lifecycle[k].op = "announce" /\ lifecycle[k].phase = "throws"}

\* C32: when the announcement of the Starts event of an activity fails, the
\* performAs of the wrapped activity is never invoked; once the failure is
\* handled, one Finished event has been announced for the scene id and the
\* activity id of the activity, with the outcome classified from the error
\* of the announcement, and the attemptsTo call is rejected with that error.
C32_StartsFailureIsReported ==
    \A t \in C32_Thrown :
        LET c == lifecycle[t].chain
            i == calls[c].idx
        IN  /\ i \notin calls[c].invoked
            /\ SettledOf(c, i) = {}
            /\ calls[c].pc # "caught" =>
                    /\ calls[c].status = "rejected"
                    /\ calls[c].error = lifecycle[t].error
                    /\ Cardinality(FinishedOf(c, i)) = 1
                    /\ \A k \in FinishedOf(c, i) :
                            /\ events[k].sceneId = calls[c].cur.sceneId
                            /\ events[k].activityId = calls[c].cur.activityId
                            /\ events[k].outcome = outcomeFor(lifecycle[t].error)
                            /\ events[k].type = activityFinished(calls[c].acts[i])

\* The Starts event of the second activity of a call could not be announced,
\* with an AssertionError, and the failure was handled
C32_Witness ==
    \E t \in C32_Thrown :
        LET c == lifecycle[t].chain
        IN  /\ calls[c].idx = 2
            /\ calls[c].pc = "done"
            /\ lifecycle[t].error = Err("AssertionError")
            /\ StartsOf(c, 2) = {}
            /\ FinishedOf(c, 1) # {}

----------------------------------------------------------------------------
(* Dismissing an actor twice: specification SpecEncore *)

\* The dismiss calls the test makes after the first one
MaxEncores == 1

\* The argument lists the test passes to whoCan before it dismisses the actor
EncoreGifts ==
    { <<Instance(2), Instance(6)>>, <<Instance(7)>> }

\* The ability types the test passes to abilityTo after a dismiss
EncoreLookups == { "BrowseTheWeb", "CallAnApi", "TakeNotes" }

\* The test calls actor.dismiss() once more, after the promise of the
\* dismiss before has settled
DismissAgain(actor) ==
    /\ dismissals # <<>>
    /\ Idle
    /\ Len(dismissals) < MaxDismissals + MaxEncores
    /\ dismissals' = Append(dismissals, dismiss(actor))
    /\ UNCHANGED <<backstage, registry, stage, calls, events, settled, lookup, lifecycle>>

\* The test calls actor.abilityTo(abilityType) after a dismiss has settled
AbilityToAfterDismiss(actor, abilityType) ==
    /\ dismissals # <<>>
    /\ Idle
    /\ AbilityTo(actor, abilityType)

NextEncore ==
    \/ \E given \in EncoreGifts : WhoCanFirst("Wendy", given)
    \/ DismissInTurn("Wendy")
    \/ DismissAgain("Wendy")
    \/ \E d \in Dismissals : DiscardBegins(d)
    \/ \E d \in Dismissals, error \in DiscardExceptions : DiscardThrows(d, error)
    \/ \E d \in Dismissals : DiscardResolves(d)
    \/ \E d \in Dismissals, error \in DiscardFailures : DiscardRejects(d, error)
    \/ \E abilityType \in EncoreLookups : AbilityToAfterDismiss("Wendy", abilityType)

SpecEncore == Init /\ [][NextEncore]_vars

\* The abilities whose discard dismiss call d has invoked, in order
C33_Invoked(d) ==
    LET OfD(invocation) == /\ invocation.op = "discard"
                           /\ invocation.chain = d
                           /\ invocation.phase \in {"begins", "throws"}
        invoked == SelectSeq(lifecycle, OfD)
    IN  [i \in 1..Len(invoked) |-> invoked[i].ability]

\* The Discardable abilities the actor held when it was first dismissed
C33_Discardable == findAbilitiesOfType(dismissals[1].held, {"discard"})

\* C33: dismiss leaves the actor's abilities as they were: while a dismiss
\* runs and after it has settled, resolved or rejected, the actor holds the
\* abilities it held when dismiss was called; abilityTo called afterwards
\* returns the ability that was discarded; and every later dismiss invokes
\* discard on the same Discardable abilities, in the same order, all of them
\* when it resolves
C33_DismissKeepsAbilities ==
    /\ \A d \in Dismissals :
        /\ abilities[dismissals[d].actor] = dismissals[d].held
        /\ Len(C33_Invoked(d)) <= Len(C33_Discardable)
        /\ C33_Invoked(d) = SubSeq(C33_Discardable, 1, Len(C33_Invoked(d)))
        /\ dismissals[d].status = "resolved" => C33_Invoked(d) = C33_Discardable
        /\ dismissals[d].status = "pending" =>
                \/ C33_Invoked(d) \o dismissals[d].toDiscard = C33_Discardable
                \/ /\ dismissals[d].pc = "discarding"
                   /\ C33_Invoked(d) \o Tail(dismissals[d].toDiscard) = C33_Discardable
    /\ lookup # NoLookup =>
        /\ lookup.held = dismissals[1].held
        /\ \A t \in 1..Len(lifecycle) :
                /\ lifecycle[t].op = "discard"
                /\ mostGenericTypeOf(lifecycle[t].ability.type)
                        = mostGenericTypeOf(lookup.type)
                => /\ lookup.found = lifecycle[t].ability
                   /\ lookup.error = NoError

\* The first dismiss was rejected by a failing discard, the second discarded
\* the same abilities again and resolved, and abilityTo then returned one of them
C33_Witness ==
    /\ Len(dismissals) = 2
    /\ dismissals[1].status = "rejected"
    /\ dismissals[2].status = "resolved"
    /\ Len(C33_Invoked(2)) = 2
    /\ C33_Invoked(1) # <<>>
    /\ lookup # NoLookup
    /\ lookup.found = C33_Invoked(2)[1]

----------------------------------------------------------------------------
(* Abilities replaced by a later grant: specification SpecReplace *)

\* The argument lists the test passes to whoCan: abilities of one root
\* family that replace one another, and one of another family
ReplaceGifts ==
    { <<Instance(2)>>, <<Instance(5), Instance(6)>> }

NextReplace ==
    \/ \E given \in ReplaceGifts : WhoCanInTurn("Wendy", given)
    \/ AttemptsToWhenIdle("Wendy", <<"Click">>)
    \/ \E c \in Chains : InitialiseBegins(c)
    \/ \E c \in Chains : InitialiseResolves(c)
    \/ \E c \in Chains : WaitForNextCue(c)
    \/ \E c \in Chains : CueResolves(c)
    \/ \E c \in Chains : TrackedPerformAs(c)
    \/ \E c \in Chains : AnnounceStarts(c)
    \/ \E c \in Chains : PerformAs(c)
    \/ \E c \in Chains : ActivityResolves(c)
    \/ DismissInTurn("Wendy")
    \/ \E d \in Dismissals : DiscardBegins(d)
    \/ \E d \in Dismissals : DiscardResolves(d)
    \/ \E d \in Dismissals, error \in DiscardFailures : DiscardRejects(d, error)

SpecReplace == Init /\ [][NextReplace]_vars

\* The abilities a map holds
C34_Held(map) == { map[i].value : i \in 1..Len(map) }

\* The abilities the actor had been given and no longer held when dismiss
\* call d was made
C34_Replaced(d) ==
    { dismissals[d].granted[i] : i \in 1..Len(dismissals[d].granted) }
        \ C34_Held(dismissals[d].held)

\* C34: lifecycle hooks apply to the abilities held when the call is made: an
\* attemptsTo invokes initialise, and a dismiss invokes discard, only on an
\* ability the actor held when the call was made, never on an instance that
\* a grant before the call had replaced, initialised or not; and the actor
\* holds one ability for each root family
C34_HooksOnHeldAbilitiesOnly ==
    /\ \A t \in 1..Len(lifecycle) :
        /\ lifecycle[t].op = "initialise" =>
                lifecycle[t].ability \in C34_Held(calls[lifecycle[t].chain].held)
        /\ lifecycle[t].op = "discard" =>
                /\ lifecycle[t].ability \in C34_Held(dismissals[lifecycle[t].chain].held)
                /\ lifecycle[t].ability \notin C34_Replaced(lifecycle[t].chain)
    /\ \A actor \in Actors :
        \A i, j \in 1..Len(abilities[actor]) :
            abilities[actor][i].key = abilities[actor][j].key => i = j

\* An ability was initialised and then replaced by one of its root family; a
\* later attemptsTo initialised the replacement and a later dismiss discarded it
C34_Witness ==
    /\ Len(dismissals) = 1
    /\ dismissals[1].status = "resolved"
    /\ \E old \in C34_Replaced(1) :
        /\ old.id \in initialised
        /\ HasMethod(old, "discard")
        /\ \E t, u \in 1..Len(lifecycle) :
            /\ lifecycle[t].op = "discard" /\ lifecycle[t].phase = "resolves"
            /\ lifecycle[u].op = "initialise" /\ lifecycle[u].phase = "resolves"
            /\ lifecycle[t].ability = lifecycle[u].ability
            /\ lifecycle[t].ability # old
            /\ mostGenericTypeOf(lifecycle[t].ability.type) = mostGenericTypeOf(old.type)

----------------------------------------------------------------------------
(* A grant refused half way: specification SpecPartial *)

\* The argument lists the test passes to whoCan: abilities of two root
\* families, with the object that does not extend Ability first, in the
\* middle, last, or not at all
PartialGifts ==
    { <<Instance(2)>>,
      <<Instance(5), Instance(8), Instance(7)>>,
      <<Instance(6), Instance(7), Instance(8)>>,
      <<Instance(8), Instance(6)>>,
      <<Instance(3), Instance(6), Instance(8), Instance(2)>>,
      <<Instance(7), Instance(1)>> }

NextPartial ==
    \E given \in PartialGifts : WhoCan("Wendy", given)

SpecPartial == Init /\ [][NextPartial]_vars

\* The position of the first value that is not an Ability, or one past the end
C35_FirstRefused(given) ==
    IF \E i \in 1..Len(given) : ~ IsAbility(given[i])
        THEN CHOOSE i \in 1..Len(given) :
                /\ ~ IsAbility(given[i])
                /\ \A j \in 1..(i - 1) : IsAbility(given[j])
        ELSE Len(given) + 1

RECURSIVE C35_StoreEach(_, _)
\* Each ability stored under its root family, the first one first
C35_StoreEach(map, stored) ==
    IF stored = <<>> THEN map
    ELSE C35_StoreEach(MapSet(map, mostGenericTypeOf(Head(stored).type), Head(stored)),
                       Tail(stored))

----------------------------------------------------------------------------
(* Reports from event queues: specification SpecReports *)

\* The most queues a DomainEventQueues object holds
MaxQueues == 2

\* The scene ids the queues are kept under
QueueSceneIds == 1..3

\* The events of a queue, by type: a scene on its own, and two queues of a
\* scene sequence, where SceneStarts is not the first event
QueueEvents ==
    { <<"SceneStarts", "SceneFinished">>,
      <<"SceneSequenceDetected", "SceneStarts", "SceneFinished">>,
      <<"SceneTemplateDetected", "SceneStarts">> }

\* A DomainEventQueue
DomainEventQueue(sceneId, queued) == [sceneId |-> sceneId, events |-> queued]

\* DomainEventQueue.first
first(queue) == Head(queue.events)

\* The names of the reports the processors produce
ReportNames == { "A scenario", "An outline" }

\* What a processor does with a queue: it returns a report of some name, or throws
ProcessorOutcomes ==
    { [name |-> name, error |-> NoError] : name \in ReportNames }
        \cup { [name |-> "", error |-> Err("LogicError")] }

\* SingleSceneEventQueueProcessor.process: the report, marked with the
\* processor that made it and the queue it was made from
SingleSceneEventQueueProcessor(queue, outcome) ==
    [name    |-> outcome.name, processor |-> "singleSceneProcessor",
     sceneId |-> queue.sceneId, error    |-> outcome.error]

\* SceneSequenceEventQueueProcessor.process
SceneSequenceEventQueueProcessor(queue, outcome) ==
    [name    |-> outcome.name, processor |-> "sceneSequenceProcessor",
     sceneId |-> queue.sceneId, error    |-> outcome.error]

\* TestReport.fromJSON: the report wrapped as an artifact
TestReportFromJSON(report) == [kind |-> "TestReport", json |-> report]

RECURSIVE processNewestFirst(_, _)
\* process with results.unshift in place of results.push: the result of the
\* queue handled last comes first
processNewestFirst(queues, outcomes) ==
    IF queues = <<>>
        THEN [results |-> <<>>, invocations |-> <<>>, error |-> NoError]
        ELSE LET queue  == Head(queues)
                 report == IF first(queue) = "SceneStarts"
                              THEN SingleSceneEventQueueProcessor(queue, Head(outcomes))
                              ELSE SceneSequenceEventQueueProcessor(queue, Head(outcomes))
                 called == <<[processor |-> report.processor, sceneId |-> queue.sceneId]>>
             IN  IF report.error # NoError
                    THEN [results |-> <<>>, invocations |-> called, error |-> report.error]
                    ELSE LET rest == processNewestFirst(Tail(queues), Tail(outcomes))
                         IN  [results     |-> IF rest.error # NoError THEN <<>>
                                              ELSE rest.results \o
                                                   <<[name     |-> Name(report.name),
                                                      artifact |-> TestReportFromJSON(report),
                                                      sceneId  |-> queue.sceneId]>>,
                              invocations |-> called \o rest.invocations,
                              error       |-> rest.error]

RECURSIVE process(_, _)
\* EventQueueProcessors.process: DomainEventQueues.forEach calls the
\* callback for each queue in order; the results, the processors invoked and
\* the error thrown (NoError when the call returns)
process(queues, outcomes) ==
    IF queues = <<>>
        THEN [results |-> <<>>, invocations |-> <<>>, error |-> NoError]
        ELSE LET queue  == Head(queues)
                 report == IF first(queue) = "SceneStarts"
                              THEN SingleSceneEventQueueProcessor(queue, Head(outcomes))
                              ELSE SceneSequenceEventQueueProcessor(queue, Head(outcomes))
                 called == <<[processor |-> report.processor, sceneId |-> queue.sceneId]>>
             IN  IF report.error # NoError
                    THEN [results |-> <<>>, invocations |-> called, error |-> report.error]
                    ELSE LET rest == process(Tail(queues), Tail(outcomes))
                         IN  [results     |-> IF rest.error # NoError THEN <<>>
                                              ELSE <<[name     |-> Name(report.name),
                                                      artifact |-> TestReportFromJSON(report),
                                                      sceneId  |-> queue.sceneId]>>
                                                   \o rest.results,
                              invocations |-> called \o rest.invocations,
                              error       |-> rest.error]

\* The DomainEventQueues objects the reporter passes: up to MaxQueues queues
\* in any order, no two under the same scene id
QueueLists ==
    { queues \in UNION { [1..n -> { DomainEventQueue(sceneId, queued) :
                                        sceneId \in QueueSceneIds, queued \in QueueEvents }]
                         : n \in 0..MaxQueues } :
        \A i, j \in 1..Len(queues) : queues[i].sceneId = queues[j].sceneId => i = j }

\* The reporter calls processors.process(queues), once in a test run
Process(queues, outcomes) ==
    /\ ~ reports.asked
    /\ LET processed == process(queues, outcomes)
       IN  reports' = [asked       |-> TRUE,
                       queues      |-> queues,
                       results     |-> processed.results,
                       invocations |-> processed.invocations,
                       error       |-> processed.error]
    /\ UNCHANGED <<registry, stage, calls, events, settled, upkeep, desk, crew, browsing>>

NextReports ==
    \E queues \in QueueLists :
        \E outcomes \in [1..Len(queues) -> ProcessorOutcomes] : Process(queues, outcomes)

SpecReports == Init /\ [][NextReports]_vars

\* C37: a process call that returns gives one result for each queue, in the
\* order of the queues, each with the scene id of its queue and with the name
\* and the report the processor made from that queue; the single-scene
\* processor is invoked on the queues whose first event is SceneStarts and
\* the scene-sequence processor on every other queue, each queue being
\* handed to one processor once
C37_OneResultPerQueueInOrder ==
    /\ reports.error = NoError =>
        /\ Len(reports.results) = Len(reports.queues)
        /\ Len(reports.invocations) = Len(reports.queues)
        /\ \A i \in 1..Len(reports.queues) :
            /\ reports.results[i].sceneId = reports.queues[i].sceneId
            /\ reports.results[i].artifact.json.sceneId = reports.queues[i].sceneId
            /\ reports.results[i].name.value = reports.results[i].artifact.json.name
    /\ Len(reports.invocations) <= Len(reports.queues)
    /\ \A i \in 1..Len(reports.invocations) :
        /\ reports.invocations[i].sceneId = reports.queues[i].sceneId
        /\ reports.invocations[i].processor =
                IF Head(reports.queues[i].events) = "SceneStarts"
                    THEN "singleSceneProcessor"
                    ELSE "sceneSequenceProcessor"

\* A call with two queues returned: the first queue, under the higher scene
\* id, begins with SceneStarts, the second does not
C37_Witness ==
    /\ reports.asked
    /\ reports.error = NoError
    /\ Len(reports.queues) = 2
    /\ reports.queues[1].sceneId > reports.queues[2].sceneId
    /\ Head(reports.queues[1].events) = "SceneStarts"
    /\ Head(reports.queues[2].events) # "SceneStarts"
    /\ "SceneStarts" \in { reports.queues[2].events[k] :
                                k \in 1..Len(reports.queues[2].events) }
    /\ Len(reports.results) = 2

----------------------------------------------------------------------------
(* The pages of a browsing session: specification SpecBrowsing *)

\* The most allPages and registerCurrentPage calls, and the most windows the
\* browser opens or closes
MaxScans == 2
MaxWindowChanges == 2

\* The window handles of the browser
WindowHandles == {"w1", "w2"}

\* browser.getWindowHandles(): the handles of the open windows, in the
\* order of their names
RECURSIVE HandlesOf(_)
HandlesOf(windows) ==
    IF windows = {} THEN <<>>
    ELSE LET least == CHOOSE w \in windows :
                        \A v \in windows : v = w \/ ~ (v = "w1" /\ w = "w2")
         IN  <<least>> \o HandlesOf(windows \ {least})

\* new CorrelationId(value): an object of its own, equal to no other
CorrelationId(value, ref) == [value |-> value, ref |-> ref]

\* new WebdriverIOPage(session, browser, handler, errorHandler, id)
WebdriverIOPage(id, ref) == [id |-> id, ref |-> ref]

\* BrowsingSession.register: pages.set(page.id, page) on a Map whose keys
\* are CorrelationId objects
register(pages, page) ==
    IF \E i \in 1..Len(pages) : pages[i].id = page.id
        THEN [i \in 1..Len(pages) |-> IF pages[i].id = page.id THEN page ELSE pages[i]]
        ELSE Append(pages, page)

\* BrowsingSession.deregister: pages.delete(pageId) for each id
deregister(pages, pageIds) ==
    SelectSeq(pages, LAMBDA page : page.id \notin pageIds)

\* BrowsingSession.registeredPageIds: the keys of the Map
registeredPageIds(pages) == [i \in 1..Len(pages) |-> pages[i].id]

\* The values of the ids registered
RegisteredHandles(pages) == { pages[i].id.value : i \in 1..Len(pages) }

Scans == 1..Len(browsing.scans)

\* The browser opens a window, a popup for one
OpenWindow(w) ==
    /\ w \notin browsing.windows
    /\ browsing.changes < MaxWindowChanges
    /\ browsing' = [browsing EXCEPT !.windows = @ \cup {w}, !.changes = @ + 1]
    /\ UNCHANGED <<registry, stage, calls, events, settled, upkeep, desk, crew, reports>>

\* A window of the browser is closed; one stays open
CloseWindow(w) ==
    /\ w \in browsing.windows
    /\ browsing.windows # {w}
    /\ browsing.changes < MaxWindowChanges
    /\ browsing' = [browsing EXCEPT !.windows = @ \ {w}, !.changes = @ + 1]
    /\ UNCHANGED <<registry, stage, calls, events, settled, upkeep, desk, crew, reports>>

\* A call of the session, as it starts
Scan(kind) ==
    [kind |-> kind, pc |-> "handles", handles |-> <<>>, todo |-> <<>>,
     status |-> "pending", registered |-> {}, returned |-> <<>>]

\* A call that returns: what it returns, and the handles registered then
Completed(scan, pages) ==
    [scan EXCEPT !.pc = "done", !.status = "resolved", !.todo = <<>>,
                 !.registered = RegisteredHandles(pages),
                 !.returned = IF scan.kind = "allPages" THEN pages ELSE <<pages[Len(pages)]>>]

\* allPages is called: await this.browser.getWindowHandles()
AllPages ==
    /\ Len(browsing.scans) < MaxScans
    /\ browsing' = [browsing EXCEPT !.scans = Append(@, Scan("allPages"))]
    /\ UNCHANGED <<registry, stage, calls, events, settled, upkeep, desk, crew, reports>>

\* allPages after getWindowHandles resolves: the pages of closed windows
\* are deregistered, the newly opened handles found, and the handler of the
\* first of them awaited; with none, the call returns
GetWindowHandlesResolves(k) ==
    /\ browsing.scans[k].kind = "allPages"
    /\ browsing.scans[k].pc = "handles"
    /\ LET windowHandles == HandlesOf(browsing.windows)
           reported      == { windowHandles[i] : i \in 1..Len(windowHandles) }
           ids           == registeredPageIds(browsing.pages)
           closedPageIds == { ids[i] : i \in { j \in 1..Len(ids) : ids[j].value \notin reported } }
           open          == deregister(browsing.pages, closedPageIds)
           registeredWindowHandles  == RegisteredHandles(open)
           newlyOpenedWindowHandles ==
                SelectSeq(windowHandles, LAMBDA w : w \notin registeredWindowHandles)
           scan == [browsing.scans[k] EXCEPT !.handles = windowHandles]
       IN  browsing' = [browsing EXCEPT
                !.pages = open,
                !.scans[k] = IF newlyOpenedWindowHandles = <<>>
                                THEN Completed(scan, open)
                                ELSE [scan EXCEPT !.pc = "handler",
                                                  !.todo = newlyOpenedWindowHandles]]
    /\ UNCHANGED <<registry, stage, calls, events, settled, upkeep, desk, crew, reports>>

\* registerCurrentPage is called: await this.browser.getWindowHandle()
RegisterCurrentPage ==
    /\ Len(browsing.scans) < MaxScans
    /\ browsing' = [browsing EXCEPT !.scans = Append(@, Scan("registerCurrentPage"))]
    /\ UNCHANGED <<registry, stage, calls, events, settled, upkeep, desk, crew, reports>>

\* registerCurrentPage after getWindowHandle resolves with the handle of
\* the window the browser is on: the handler for it is awaited
GetWindowHandleResolves(k, windowHandle) ==
    /\ browsing.scans[k].kind = "registerCurrentPage"
    /\ browsing.scans[k].pc = "handles"
    /\ windowHandle \in browsing.windows
    /\ browsing' = [browsing EXCEPT !.scans[k] =
            [@ EXCEPT !.pc = "handler", !.handles = <<windowHandle>>,
                      !.todo = <<windowHandle>>]]
    /\ UNCHANGED <<registry, stage, calls, events, settled, upkeep, desk, crew, reports>>

\* modalDialogHandlerFor resolves: the page is made with a CorrelationId of
\* its own and registered; allPages goes on to the next newly opened handle
ModalDialogHandlerResolves(k) ==
    /\ browsing.scans[k].pc = "handler"
    /\ LET windowHandle == Head(browsing.scans[k].todo)
           page  == WebdriverIOPage(CorrelationId(windowHandle, browsing.nextPage),
                                    browsing.nextPage)
           pages == register(browsing.pages, page)
           rest  == Tail(browsing.scans[k].todo)
       IN  browsing' = [browsing EXCEPT
                !.pages = pages,
                !.nextPage = @ + 1,
                !.scans[k] = IF rest = <<>> THEN Completed(@, pages)
                                            ELSE [@ EXCEPT !.todo = rest]]
    /\ UNCHANGED <<registry, stage, calls, events, settled, upkeep, desk, crew, reports>>

\* modalDialogHandlerFor rejects, puppeteerPageFor having thrown a
\* LogicError: the call rejects with the pages registered so far kept
ModalDialogHandlerRejects(k) ==
    /\ browsing.scans[k].pc = "handler"
    /\ browsing' = [browsing EXCEPT !.scans[k] =
            [@ EXCEPT !.pc = "done", !.status = "rejected"]]
    /\ UNCHANGED <<registry, stage, calls, events, settled, upkeep, desk, crew, reports>>

NextBrowsing ==
    \/ \E w \in WindowHandles : OpenWindow(w)
    \/ \E w \in WindowHandles : CloseWindow(w)
    \/ AllPages
    \/ \E k \in Scans : GetWindowHandlesResolves(k)
    \/ RegisterCurrentPage
    \/ \E k \in Scans, w \in WindowHandles : GetWindowHandleResolves(k, w)
    \/ \E k \in Scans : ModalDialogHandlerResolves(k)
    \/ \E k \in Scans : ModalDialogHandlerRejects(k)

SpecBrowsing == Init /\ [][NextBrowsing]_vars

\* C36: allPages synchronises the registry with the browser: when an
\* allPages call returns, the handles registered are the handles the browser
\* reported to that call, and no window handle is registered under two page
\* objects, also when calls overlap
C36_RegistryFollowsTheBrowser ==
    /\ \A k \in Scans :
            /\ browsing.scans[k].kind = "allPages"
            /\ browsing.scans[k].status = "resolved"
            => browsing.scans[k].registered
                    = { browsing.scans[k].handles[i] : i \in 1..Len(browsing.scans[k].handles) }
    /\ \A i, j \in 1..Len(browsing.pages) :
            browsing.pages[i].id.value = browsing.pages[j].id.value => i = j

====
